---- MODULE Spec2Model ----
(***************************************************************************)
(* Model of the offline-caching service worker (latest revision of the     *)
(* worker script, src/unnamed/part_001 lines 1-508).                       *)
(*                                                                         *)
(* Strings are sequences of one-character strings, so that prefix tests,   *)
(* the extension regular expression and the case conversions are computed  *)
(* character by character as the script computes them.                     *)
(*                                                                         *)
(* Every await of the script is a step boundary.  Platform promises that   *)
(* are requested in some order (clients.matchAll of sendToClient) settle   *)
(* in that order.                                                          *)
(***************************************************************************)
EXTENDS Integers, Sequences, FiniteSets, TLC

VARIABLES
    caches,          \* generation name -> (request key -> stored response)
    cacheFirstMode,  \* the mode flag
    clients,         \* ids of the controlled window clients (open pages)
    net,             \* the network: absolute URL -> status (0 = transport error)
    jobs,            \* prefetch jobs (cacheResources invocations), in start order
    outbox,          \* sendToClient calls whose clients.matchAll() is pending
    inbox,           \* client id -> messages posted to that page, in order
    reqs,            \* intercepted fetch events, in interception order
    netLog,          \* network requests issued so far: {[by, url]}
    sw,              \* the worker's lifecycle: install and activate handlers
    probe            \* an argument and result of getCaseVariants

vars == <<caches, cacheFirstMode, clients, net, jobs, outbox, inbox, reqs, netLog,
          sw, probe>>

----------------------------------------------------------------------------
(* Bounds of the model *)

MaxJobs == 1
MaxReqs == 1
\* How many times the activate event is dispatched.
MaxActivations == 2
\* The length of the paths getCaseVariants is applied to.
MaxPathLen == 4
\* Requests and jobs, counted together, while a network request hangs.
MaxHang == 2

----------------------------------------------------------------------------
(* Strings *)

LowerAlpha == <<"a","b","c","d","e","f","g","h","i","j","k","l","m",
                "n","o","p","q","r","s","t","u","v","w","x","y","z">>
UpperAlpha == <<"A","B","C","D","E","F","G","H","I","J","K","L","M",
                "N","O","P","Q","R","S","T","U","V","W","X","Y","Z">>

ToLowerChar(c) ==
    IF \E i \in 1..26 : UpperAlpha[i] = c
    THEN LowerAlpha[CHOOSE i \in 1..26 : UpperAlpha[i] = c]
    ELSE c

ToUpperChar(c) ==
    IF \E i \in 1..26 : LowerAlpha[i] = c
    THEN UpperAlpha[CHOOSE i \in 1..26 : LowerAlpha[i] = c]
    ELSE c

toLowerCase(s) == [i \in 1..Len(s) |-> ToLowerChar(s[i])]
toUpperCase(s) == [i \in 1..Len(s) |-> ToUpperChar(s[i])]

startsWith(s, p) == Len(p) <= Len(s) /\ SubSeq(s, 1, Len(p)) = p
endsWith(s, p) == Len(p) <= Len(s) /\ SubSeq(s, Len(s) - Len(p) + 1, Len(s)) = p

\* Index of the first occurrence of the character c in s at or after from; 0 if none.
IndexOf(s, c, from) ==
    IF \E i \in from..Len(s) : s[i] = c
    THEN CHOOSE i \in from..Len(s) : s[i] = c /\ \A j \in from..(i - 1) : s[j] # c
    ELSE 0

\* Index of the last occurrence of the character c in s; 0 if none.
LastIndexOf(s, c) ==
    IF \E i \in 1..Len(s) : s[i] = c
    THEN CHOOSE i \in 1..Len(s) : s[i] = c /\ \A j \in (i + 1)..Len(s) : s[j] # c
    ELSE 0

\* Removes repeated elements, keeping first occurrences in order ([...new Set(a)]).
RECURSIVE Dedup(_)
Dedup(s) ==
    IF s = <<>> THEN <<>>
    ELSE LET init == Dedup(SubSeq(s, 1, Len(s) - 1))
             last == s[Len(s)]
         IN IF \E i \in 1..Len(init) : init[i] = last THEN init ELSE Append(init, last)

Http == <<"h","t","t","p",":","/","/">>
Https == <<"h","t","t","p","s",":","/","/">>

----------------------------------------------------------------------------
(* Program constants *)

CACHE_NAME == "baby-cards-v6"
\* Names of generations that earlier versions of the worker left behind.
StaleName == "baby-cards-v5"
OlderName == "baby-cards-v4"
\* The generations in creation order.
GenOrder == <<OlderName, StaleName, CACHE_NAME>>

batchSize == 10

\* self.location.origin of the worker, and a foreign origin
Origin == Https \o <<"o">>
Remote == Https \o <<"r">>

----------------------------------------------------------------------------
(* getCaseVariants *)

\* path.match(/\.([^.]+)$/): the index of the last '.', when at least one
\* character follows it; 0 when the expression does not match.
ExtDot(path) ==
    LET d == LastIndexOf(path, ".")
    IN IF d > 0 /\ d < Len(path) THEN d ELSE 0

capitalize(ext) ==
    <<ToUpperChar(ext[1])>> \o toLowerCase(SubSeq(ext, 2, Len(ext)))

\* Mutant of getCaseVariants: the variants are returned as they were pushed.
getCaseVariantsNoDedup(path) ==
    LET d == ExtDot(path)
    IN IF d = 0 THEN <<path>>
       ELSE LET ext == SubSeq(path, d + 1, Len(path))
                basePath == SubSeq(path, 1, Len(path) - Len(ext) - 1)
                lower == IF toLowerCase(ext) # ext
                         THEN <<basePath \o <<".">> \o toLowerCase(ext)>> ELSE <<>>
                upper == IF toUpperCase(ext) # ext
                         THEN <<basePath \o <<".">> \o toUpperCase(ext)>> ELSE <<>>
                cap == IF Len(ext) > 0 /\ capitalize(ext) # ext
                       THEN <<basePath \o <<".">> \o capitalize(ext)>> ELSE <<>>
            IN <<path>> \o lower \o upper \o cap

getCaseVariants(path) ==
    LET d == ExtDot(path)
    IN IF d = 0 THEN Dedup(<<path>>)
       ELSE LET ext == SubSeq(path, d + 1, Len(path))
                basePath == SubSeq(path, 1, Len(path) - Len(ext) - 1)
                lower == IF toLowerCase(ext) # ext
                         THEN <<basePath \o <<".">> \o toLowerCase(ext)>> ELSE <<>>
                upper == IF toUpperCase(ext) # ext
                         THEN <<basePath \o <<".">> \o toUpperCase(ext)>> ELSE <<>>
                cap == IF Len(ext) > 0 /\ capitalize(ext) # ext
                       THEN <<basePath \o <<".">> \o capitalize(ext)>> ELSE <<>>
            IN Dedup(<<path>> \o lower \o upper \o cap)

----------------------------------------------------------------------------
(* URLs *)

\* url.startsWith('http://') || url.startsWith('https://')
isOnlineUrl(url) == startsWith(url, Http) \/ startsWith(url, Https)

\* url.startsWith('/') ? url : '/' + url
withSlash(url) == IF startsWith(url, <<"/">>) THEN url ELSE <<"/">> \o url

\* isOnlineUrl ? url : (url.startsWith('/') ? url : '/' + url)
cacheUrlOf(url) == IF isOnlineUrl(url) THEN url ELSE withSlash(url)

\* The part of a URL or path before its query string.
StripQuery(u) ==
    LET q == IndexOf(u, "?", 1)
    IN IF q = 0 THEN u ELSE SubSeq(u, 1, q - 1)

\* new URL(u).protocol of an absolute URL: the scheme with its ':'.
protocol(u) == SubSeq(u, 1, IndexOf(u, ":", 1))

\* Index at which the path of an absolute URL starts (the first '/' after "scheme://").
PathStart(u) == IndexOf(u, "/", IndexOf(u, ":", 1) + 3)

\* new URL(u).origin and new URL(u).pathname of an absolute URL.
originOf(u) == IF PathStart(u) = 0 THEN u ELSE SubSeq(u, 1, PathStart(u) - 1)
pathname(u) ==
    IF PathStart(u) = 0 THEN <<"/">>
    ELSE StripQuery(SubSeq(u, PathStart(u), Len(u)))

\* The request key of a cache.match / cache.put argument: a relative path is
\* resolved against the worker's own location.
Key(u) == IF isOnlineUrl(u) THEN u ELSE Origin \o u

----------------------------------------------------------------------------
(* The resources and requests of the model *)

ResA == <<"a",".","j","s","o","n">>
ResB == <<"/","b",".","P","N","G">>
ResR == Remote \o <<"/","c",".","m","p","3">>

FileB == <<"/","b",".","p","n","g">>
ViewHtml == <<"/","v","i","e","w",".","h","t","m","l">>
ViewQuery == ViewHtml \o <<"?","i","d","=","5">>
ApiPath == <<"/","a","p","i">>

\* A cross-origin URL (another port of the same host) that has the worker's
\* origin as a prefix.
ResP == Origin \o <<":","8">> \o ApiPath

Root == <<"/">>
IndexHtml == <<"/","i","n","d","e","x",".","h","t","m","l">>
ListHtml == <<"/","l","i","s","t",".","h","t","m","l">>
PacksJson == <<"/","d","a","t","a","/","p","a","c","k","s",".","j","s","o","n">>

CORE_FILES == <<Root, IndexHtml, ListHtml, ViewHtml, PacksJson>>

\* What the origin server and the foreign servers hold.
ServerFiles == {Origin \o withSlash(ResA), Origin \o FileB, Origin \o ApiPath, ResR, ResP}
               \cup {Origin \o CORE_FILES[i] : i \in 1..Len(CORE_FILES)}

\* Network conditions.  NetStatus is the status answered for an absolute URL
\* under a condition (0: transport error); a static server ignores the query.
NetConditions == {"online", "offline", "partial"}

NetStatus(n, u) ==
    LET f == StripQuery(u)
    IN CASE n = "online"  -> IF f \in ServerFiles THEN 200 ELSE 404
         [] n = "offline" -> 0
         [] n = "hang"    -> IF f \in ServerFiles THEN 200 ELSE 404
         [] OTHER -> IF f = Origin \o FileB THEN 203
                     ELSE IF f = Origin \o IndexHtml THEN 200
                     ELSE IF f \in {ResR, Origin \o ViewHtml} THEN 0
                     ELSE 404

\* Under the condition "hang" the server of the foreign resource accepts the
\* connection and never answers: the promise of fetch(u) stays pending.
Hangs(n, u) == n = "hang" /\ StripQuery(u) = ResR

\* Mutant of ok: every answer of a server counts as a success.
okAny(status) == status # 0

\* Response.ok
ok(status) == status >= 200 /\ status <= 299

\* A response: its status, the URL it was fetched from, and its Content-Type
\* ("served": whatever the server sent).
NoResp == [status |-> -1, url |-> <<>>, contentType |-> ""]
Resp(status, u) == [status |-> status, url |-> u, contentType |-> "served"]

ClientIds == {1, 2}
NoClient == 0

----------------------------------------------------------------------------
(* Cache store *)

current == CACHE_NAME

\* caches.open(name): creates the generation when it does not exist.
cachesOpen(cs, name) ==
    IF name \in DOMAIN cs THEN cs
    ELSE [g \in DOMAIN cs \cup {name} |-> IF g = name THEN <<>> ELSE cs[g]]

\* cache.match(u) on one generation.
cacheHas(cs, name, u) == name \in DOMAIN cs /\ Key(u) \in DOMAIN cs[name]

\* cache.put(u, response) on one generation.
putEntry(c, k, r) == [x \in DOMAIN c \cup {k} |-> IF x = k THEN r ELSE c[x]]
cachePut(cs, name, u, r) ==
    LET o == cachesOpen(cs, name)
    IN [o EXCEPT ![name] = putEntry(o[name], Key(u), r)]

\* caches.match(u): any generation holding the key.
cachesHas(cs, u) == \E g \in DOMAIN cs : Key(u) \in DOMAIN cs[g]
\* The first generation in creation order wins.
cachesMatch(cs, u) ==
    LET holds(i) == GenOrder[i] \in DOMAIN cs /\ Key(u) \in DOMAIN cs[GenOrder[i]]
        first == CHOOSE i \in 1..Len(GenOrder) :
                    holds(i) /\ \A h \in 1..(i - 1) : ~holds(h)
    IN cs[GenOrder[first]][Key(u)]

----------------------------------------------------------------------------
(* The worker *)

\* The worker before its install event: no handler has run.  pages are the
\* open pages of the scope that the worker does not control yet.
FreshWorker(pages) ==
    [install |-> "none", skipWaiting |-> FALSE,
     activate |-> "none", toDelete |-> {}, deleteFailed |-> FALSE, deleted |-> {},
     claim |-> "none", pages |-> pages, activations |-> 0,
     strategy |-> [seen |-> FALSE, cacheFirst |-> FALSE]]

\* A worker that was installed and activated in an earlier run and has been
\* started again: neither handler runs in this run.
StartedWorker ==
    [install |-> "earlier", skipWaiting |-> FALSE,
     activate |-> "earlier", toDelete |-> {}, deleteFailed |-> FALSE, deleted |-> {},
     claim |-> "none", pages |-> {}, activations |-> 0,
     strategy |-> [seen |-> FALSE, cacheFirst |-> FALSE]]

\* The worker is the active worker and its activation has settled: fetch
\* events are dispatched to it.
isActive == sw.activate \in {"earlier", "done", "failed"}

----------------------------------------------------------------------------
(* Prefetch coordinator: cacheResources and its helpers *)

\* Mutant of isResourceCached: only the exact spelling is looked up.
isResourceCachedExact(cs, url) == cacheHas(cs, current, cacheUrlOf(url))

\* isResourceCached(cache, url)
isResourceCached(cs, url) ==
    IF isOnlineUrl(url) THEN cacheHas(cs, current, url)
    ELSE LET variants == getCaseVariants(withSlash(url))
         IN \E i \in 1..Len(variants) : cacheHas(cs, current, variants[i])

\* Mutant of fetchCandidates: the variants are tried from the last to the first.
fetchCandidatesReversed(url) ==
    LET variants == getCaseVariants(StripQuery(withSlash(url)))
        n == Len(variants)
    IN [i \in 1..n |-> Origin \o variants[n + 1 - i]]

\* The candidates fetchResourceWithCaseFallback requests for a relative url.
fetchCandidates(url) ==
    LET variants == getCaseVariants(StripQuery(withSlash(url)))
    IN [i \in 1..Len(variants) |-> Origin \o variants[i]]

\* The URLs of the network requests that are pending.
PendingFetches ==
    {reqs[r].req : r \in {n \in 1..Len(reqs) : reqs[n].pc = "fetching"}}
    \cup UNION {{jobs[j].tasks[k].req :
                   k \in {n \in 1..Len(jobs[j].tasks) : jobs[j].tasks[n].pc = "fetching"}} :
                j \in 1..Len(jobs)}

\* Mutant of settles: requests are served one at a time, so that no request
\* settles while one that never will is pending.
settlesSerial(u) == \A v \in PendingFetches : ~Hangs(net, v)

\* await fetch(u): whether the promise of the pending request for u settles.
settles(u) == ~Hangs(net, u)

NewTask(url) ==
    [url |-> url, pc |-> "check", wasCached |-> FALSE, vi |-> 0,
     req |-> <<>>, resp |-> NoResp, updated |-> FALSE, err |-> "none"]

\* Mutant of Settled: a rejected task is never waited out.
SettledFulfilled(t) == t.pc \in {"skipped", "fulfilled"}

\* Promise.allSettled: a task has settled once it is fulfilled or rejected.
Settled(t) == t.pc \in {"skipped", "fulfilled", "rejected"}

\* Mutant of batchOf: the whole rest of the list is one batch.
batchOfAll(resources, i) == SubSeq(resources, i, Len(resources))

\* resources.slice(i, i + batchSize), with i counted from 1
batchOf(resources, i) ==
    SubSeq(resources, i, IF i + batchSize - 1 < Len(resources)
                         THEN i + batchSize - 1 ELSE Len(resources))

TasksOf(resources, i) ==
    LET b == batchOf(resources, i) IN [k \in 1..Len(b) |-> NewTask(b[k])]

Tallies(j) == [success |-> j.success, failed |-> j.failed,
               skipped |-> j.skipped, updated |-> j.updated]

\* Mutant of tallyResult: the else of the skipped test is lost.
tallyResultNoElse(t, tl) ==
    IF t.pc = "rejected" THEN [tl EXCEPT !.failed = @ + 1]
    ELSE IF t.pc = "skipped" THEN [tl EXCEPT !.skipped = @ + 1, !.success = @ + 1]
    ELSE [tl EXCEPT !.success = @ + 1,
                    !.updated = IF t.updated THEN @ + 1 ELSE @]

\* The body of results.forEach for one settled task: the new tallies.
tallyResult(t, tl) ==
    IF t.pc = "rejected" THEN [tl EXCEPT !.failed = @ + 1]
    ELSE IF t.pc = "skipped" THEN [tl EXCEPT !.skipped = @ + 1]
    ELSE [tl EXCEPT !.success = @ + 1,
                    !.updated = IF t.updated THEN @ + 1 ELSE @]

\* Tallies after the first n results of the batch.
RECURSIVE tallyBatch(_, _, _)
tallyBatch(tasks, n, tl) ==
    IF n = 0 THEN tl ELSE tallyResult(tasks[n], tallyBatch(tasks, n - 1, tl))

\* Mutant of progressMsg: skipped resources are not counted in current.
progressMsgNoSkipped(jid, tl, total, url) ==
    [type |-> "cacheProgress", job |-> jid,
     current |-> tl.success + tl.failed, total |-> total,
     url |-> cacheUrlOf(url)]

\* The message of sendToClient at line 226: current is successCount +
\* failCount + skippedCount at the time of the call.
progressMsg(jid, tl, total, url) ==
    [type |-> "cacheProgress", job |-> jid,
     current |-> tl.success + tl.failed + tl.skipped, total |-> total,
     url |-> cacheUrlOf(url)]

completeMsg(jid, tl, total) ==
    [type |-> "cacheComplete", job |-> jid, success |-> tl.success,
     failed |-> tl.failed, skipped |-> tl.skipped, updated |-> tl.updated,
     total |-> total]

\* sendToClient(clientId, message) up to its await
send(to, m) == [to |-> to, msg |-> m]

\* The sendToClient calls of results.forEach, in order.
progressSends(jid, j) ==
    [n \in 1..Len(j.tasks) |->
        send(j.clientId,
             progressMsg(jid, tallyBatch(j.tasks, n, Tallies(j)),
                         Len(j.resources), j.tasks[n].url))]

\* The resource lists a page asks for.
JobLists == {<<>>, <<ResA>>, <<ResA, ResB>>, <<ResB, ResR>>, <<ResA, ResA>>}

\* A list of two batches: a foreign resource, then one local resource repeated
\* to the end of the first batch, then a resource of the second batch.
LongList == <<ResR>> \o [i \in 1..(batchSize - 1) |-> ResA] \o <<ResB>>

NewJob(resources, clientId, forceUpdate, phase) ==
    [resources |-> resources, clientId |-> clientId, source |-> clientId,
     forceUpdate |-> forceUpdate, phase |-> phase, i |-> 1, tasks |-> <<>>,
     success |-> 0, failed |-> 0, skipped |-> 0, updated |-> 0,
     classes |-> <<>>]

\* message handler, type 'cacheResources'
AcceptCacheResources(resources, forceUpdate, source) ==
    /\ jobs' = Append(jobs,
                 IF source # NoClient
                 THEN NewJob(resources, source, forceUpdate, "open")
                 ELSE NewJob(resources, NoClient, forceUpdate, "lookup"))
    /\ UNCHANGED <<caches, cacheFirstMode, clients, net, outbox, inbox, reqs, netLog, sw, probe>>

\* A cacheResources message arrives.
MsgCacheResources(resources, forceUpdate, source) ==
    /\ Len(jobs) < MaxJobs
    /\ AcceptCacheResources(resources, forceUpdate, source)

\* message handler: clients.matchAll() settles, clientId = clients[0].id
JobLookup(j) ==
    /\ jobs[j].phase = "lookup"
    /\ \E c \in (IF clients = {} THEN {NoClient} ELSE clients) :
          jobs' = [jobs EXCEPT ![j].clientId = c, ![j].phase = "open"]
    /\ UNCHANGED <<caches, cacheFirstMode, clients, net, outbox, inbox, reqs, netLog, sw, probe>>

\* The class of a settled task, as results.forEach counts it.
classOf(t) ==
    [url |-> cacheUrlOf(t.url),
     class |-> IF t.pc = "rejected" THEN "failed"
               ELSE IF t.pc = "skipped" THEN "skipped" ELSE "success",
     updated |-> t.pc = "fulfilled" /\ t.updated,
     wasCached |-> t.wasCached, err |-> t.err]

\* Mutant of continueJob: the completion message is sent before the progress
\* messages of the last batch.
continueJobEarly(jid, j, next, tl, cls, sends) ==
    IF next <= Len(j.resources)
    THEN /\ jobs' = [jobs EXCEPT ![jid] =
                       [j EXCEPT !.phase = "batch", !.i = next,
                                 !.tasks = TasksOf(j.resources, next),
                                 !.success = tl.success, !.failed = tl.failed,
                                 !.skipped = tl.skipped, !.updated = tl.updated,
                                 !.classes = cls]]
         /\ outbox' = outbox \o sends
    ELSE /\ jobs' = [jobs EXCEPT ![jid] =
                       [j EXCEPT !.phase = "done", !.i = next, !.tasks = <<>>,
                                 !.success = tl.success, !.failed = tl.failed,
                                 !.skipped = tl.skipped, !.updated = tl.updated,
                                 !.classes = cls]]
         /\ outbox' = outbox \o
                        <<send(j.clientId, completeMsg(jid, tl, Len(j.resources)))>>
                        \o sends

\* cacheResources: the loop header after a batch (or at the start): either the
\* next batch starts or the completion message is sent.
continueJob(jid, j, next, tl, cls, sends) ==
    IF next <= Len(j.resources)
    THEN /\ jobs' = [jobs EXCEPT ![jid] =
                       [j EXCEPT !.phase = "batch", !.i = next,
                                 !.tasks = TasksOf(j.resources, next),
                                 !.success = tl.success, !.failed = tl.failed,
                                 !.skipped = tl.skipped, !.updated = tl.updated,
                                 !.classes = cls]]
         /\ outbox' = outbox \o sends
    ELSE /\ jobs' = [jobs EXCEPT ![jid] =
                       [j EXCEPT !.phase = "done", !.i = next, !.tasks = <<>>,
                                 !.success = tl.success, !.failed = tl.failed,
                                 !.skipped = tl.skipped, !.updated = tl.updated,
                                 !.classes = cls]]
         /\ outbox' = outbox \o sends \o
                        <<send(j.clientId, completeMsg(jid, tl, Len(j.resources)))>>

\* cacheResources: caches.open(CACHE_NAME) settles and the first batch starts.
JobOpen(j) ==
    /\ jobs[j].phase = "open"
    /\ caches' = cachesOpen(caches, CACHE_NAME)
    /\ continueJob(j, jobs[j], 1, Tallies(jobs[j]), <<>>, <<>>)
    /\ UNCHANGED <<cacheFirstMode, clients, net, inbox, reqs, netLog, sw, probe>>

setTask(j, k, t) == jobs' = [jobs EXCEPT ![j].tasks[k] = t]

\* Mutant of TaskCheck: the result of isResourceCached never leads to a skip.
TaskCheckNoSkip(j, k) ==
    /\ jobs[j].phase = "batch"
    /\ k \in 1..Len(jobs[j].tasks)
    /\ jobs[j].tasks[k].pc = "check"
    /\ LET t == jobs[j].tasks[k]
           wasCached == isResourceCached(caches, t.url)
       IN IF isOnlineUrl(t.url)
          THEN /\ setTask(j, k, [t EXCEPT !.pc = "fetching", !.wasCached = wasCached,
                                          !.req = t.url])
               /\ netLog' = netLog \cup {[by |-> <<"job", j, jobs[j].i + k - 1>>, url |-> t.url]}
          ELSE /\ setTask(j, k, [t EXCEPT !.pc = "origin", !.wasCached = wasCached])
               /\ UNCHANGED netLog
    /\ UNCHANGED <<caches, cacheFirstMode, clients, net, outbox, inbox, reqs, sw, probe>>

\* batch task: isResourceCached settles; a skip, or the resource is requested.
TaskCheck(j, k) ==
    /\ jobs[j].phase = "batch"
    /\ k \in 1..Len(jobs[j].tasks)
    /\ jobs[j].tasks[k].pc = "check"
    /\ LET t == jobs[j].tasks[k]
           wasCached == isResourceCached(caches, t.url)
       IN IF ~jobs[j].forceUpdate /\ wasCached
          THEN /\ setTask(j, k, [t EXCEPT !.pc = "skipped", !.wasCached = wasCached])
               /\ UNCHANGED netLog
          ELSE IF isOnlineUrl(t.url)
          THEN /\ setTask(j, k, [t EXCEPT !.pc = "fetching", !.wasCached = wasCached,
                                          !.req = t.url])
               /\ netLog' = netLog \cup {[by |-> <<"job", j, jobs[j].i + k - 1>>, url |-> t.url]}
          ELSE /\ setTask(j, k, [t EXCEPT !.pc = "origin", !.wasCached = wasCached])
               /\ UNCHANGED netLog
    /\ UNCHANGED <<caches, cacheFirstMode, clients, net, outbox, inbox, reqs, sw, probe>>

\* fetchResourceWithCaseFallback: clients.matchAll() settles, the origin is taken
\* from the first client, and the first candidate is requested.  Without a
\* client the origin is '' and new URL(baseUrl) throws.
TaskOrigin(j, k) ==
    /\ jobs[j].phase = "batch"
    /\ k \in 1..Len(jobs[j].tasks)
    /\ jobs[j].tasks[k].pc = "origin"
    /\ LET t == jobs[j].tasks[k]
           cands == fetchCandidates(t.url)
       IN IF clients = {}
          THEN /\ setTask(j, k, [t EXCEPT !.pc = "rejected", !.err = "TypeError"])
               /\ UNCHANGED netLog
          ELSE /\ setTask(j, k, [t EXCEPT !.pc = "fetching", !.vi = 1, !.req = cands[1]])
               /\ netLog' = netLog \cup {[by |-> <<"job", j, jobs[j].i + k - 1>>, url |-> cands[1]]}
    /\ UNCHANGED <<caches, cacheFirstMode, clients, net, outbox, inbox, reqs, sw, probe>>

\* batch task: the pending network request settles.
TaskResponse(j, k) ==
    /\ jobs[j].phase = "batch"
    /\ k \in 1..Len(jobs[j].tasks)
    /\ jobs[j].tasks[k].pc = "fetching"
    /\ settles(jobs[j].tasks[k].req)
    /\ LET t == jobs[j].tasks[k]
           status == NetStatus(net, t.req)
           cands == fetchCandidates(t.url)
       IN IF ok(status)
          THEN /\ setTask(j, k, [t EXCEPT !.pc = "put", !.resp = Resp(status, t.req)])
               /\ UNCHANGED netLog
          ELSE IF ~isOnlineUrl(t.url) /\ t.vi < Len(cands)
          THEN /\ setTask(j, k, [t EXCEPT !.vi = @ + 1, !.req = cands[t.vi + 1]])
               /\ netLog' = netLog \cup {[by |-> <<"job", j, jobs[j].i + k - 1>>,
                                          url |-> cands[t.vi + 1]]}
          ELSE /\ setTask(j, k, [t EXCEPT !.pc = "rejected", !.err = "fetch"])
               /\ UNCHANGED netLog
    /\ UNCHANGED <<caches, cacheFirstMode, clients, net, outbox, inbox, reqs, sw, probe>>

\* Mutant of storeKeyOf: the key is the URL that answered.
storeKeyActual(t) == t.resp.url

\* The key cacheResources stores a fetched resource under.
storeKeyOf(t) == cacheUrlOf(t.url)

\* Mutant of isUpdated: every forced re-fetch counts as an update.
isUpdatedForced(forceUpdate, wasCached) == forceUpdate

\* updated: forceUpdate && wasCached
isUpdated(forceUpdate, wasCached) == forceUpdate /\ wasCached

\* Mutant of TaskPut: a write that fails has replaced the entry all the same.
TaskPutHalf(j, k) ==
    /\ jobs[j].phase = "batch"
    /\ k \in 1..Len(jobs[j].tasks)
    /\ jobs[j].tasks[k].pc = "put"
    /\ LET t == jobs[j].tasks[k]
       IN \E written \in BOOLEAN :
            /\ caches' = cachePut(caches, current, storeKeyOf(t), t.resp)
            /\ IF written
               THEN setTask(j, k, [t EXCEPT !.pc = "fulfilled",
                                            !.updated = isUpdated(jobs[j].forceUpdate, t.wasCached)])
               ELSE setTask(j, k, [t EXCEPT !.pc = "rejected", !.err = "put"])
    /\ UNCHANGED <<cacheFirstMode, clients, net, outbox, inbox, reqs, netLog, sw, probe>>

\* batch task: cache.put(cacheUrl, response) settles; the write may fail.
TaskPut(j, k) ==
    /\ jobs[j].phase = "batch"
    /\ k \in 1..Len(jobs[j].tasks)
    /\ jobs[j].tasks[k].pc = "put"
    /\ LET t == jobs[j].tasks[k]
       IN \E written \in BOOLEAN :
            IF written
            THEN /\ caches' = cachePut(caches, current, storeKeyOf(t), t.resp)
                 /\ setTask(j, k, [t EXCEPT !.pc = "fulfilled",
                                            !.updated = isUpdated(jobs[j].forceUpdate, t.wasCached)])
            ELSE /\ setTask(j, k, [t EXCEPT !.pc = "rejected", !.err = "put"])
                 /\ UNCHANGED caches
    /\ UNCHANGED <<cacheFirstMode, clients, net, outbox, inbox, reqs, netLog, sw, probe>>

\* cacheResources: Promise.allSettled settles; the batch is tallied, one progress
\* message per resource is sent, and the loop goes on.
BatchSettle(j) ==
    /\ jobs[j].phase = "batch"
    /\ \A k \in 1..Len(jobs[j].tasks) : Settled(jobs[j].tasks[k])
    /\ LET job == jobs[j]
           n == Len(job.tasks)
       IN continueJob(j, job, job.i + batchSize,
                      tallyBatch(job.tasks, n, Tallies(job)),
                      job.classes \o [k \in 1..n |-> classOf(job.tasks[k])],
                      progressSends(j, job))
    /\ UNCHANGED <<caches, cacheFirstMode, clients, net, inbox, reqs, netLog, sw, probe>>

\* Mutant of Deliver: the message is posted to every client.
DeliverBroadcast ==
    /\ outbox # <<>>
    /\ inbox' = [c \in ClientIds |->
                   IF c \in clients THEN Append(inbox[c], Head(outbox).msg) ELSE inbox[c]]
    /\ outbox' = Tail(outbox)
    /\ UNCHANGED <<caches, cacheFirstMode, clients, net, jobs, reqs, netLog, sw, probe>>

\* sendToClient: clients.matchAll() settles; the message is posted to the client
\* with that id, or to every client when there is none.
Deliver ==
    /\ outbox # <<>>
    /\ LET m == Head(outbox)
           targets == IF m.to \in clients THEN {m.to} ELSE clients
       IN inbox' = [c \in ClientIds |->
                      IF c \in targets THEN Append(inbox[c], m.msg) ELSE inbox[c]]
    /\ outbox' = Tail(outbox)
    /\ UNCHANGED <<caches, cacheFirstMode, clients, net, jobs, reqs, netLog, sw, probe>>

\* A page is closed.
ClientClose(c) ==
    /\ c \in clients
    /\ clients' = clients \ {c}
    /\ UNCHANGED <<caches, cacheFirstMode, net, jobs, outbox, inbox, reqs, netLog, sw, probe>>

----------------------------------------------------------------------------
(* Request interceptor: the fetch handler and fetchWithCaseFallback *)

\* The URLs and methods of the requests the pages issue.
RequestUrls == {Origin \o withSlash(ResA), Origin \o ResB, Origin \o ViewQuery,
                Origin \o ApiPath, ResR, ResP}
Methods == {"GET", "POST"}

MediaExts == {<<"j","p","g">>, <<"j","p","e","g">>, <<"p","n","g">>,
              <<"g","i","f">>, <<"w","e","b","p">>, <<"m","p","3">>}

\* url.pathname.match(/\.(jpg|jpeg|png|gif|webp|mp3)$/i)
isImageOrAudio(path) ==
    \E e \in MediaExts : endsWith(toLowerCase(path), <<".">> \o e)

\* url.pathname.match(/\.json$/i)
isJson(path) == endsWith(toLowerCase(path), <<".","j","s","o","n">>)

\* url.pathname.match(/\.html$|^\/$/) || url.pathname === '/'
isHtml(path) == endsWith(path, <<".","h","t","m","l">>) \/ path = <<"/">>

modeAware(path) == isImageOrAudio(path) \/ isJson(path) \/ isHtml(path)

\* Mutant of branchOf: the method of the request is not looked at.
branchOfAnyMethod(method, url, cacheFirst) ==
    IF modeAware(pathname(url)) /\ cacheFirst THEN "cacheFirst"
    ELSE IF modeAware(pathname(url)) THEN "networkFirst"
    ELSE "other"

\* Mutant of branchOf: the mode flag decides for every classification.
branchOfModeForAll(method, url, cacheFirst) ==
    IF method # "GET" THEN "passthrough"
    ELSE IF cacheFirst THEN "cacheFirst"
    ELSE IF modeAware(pathname(url)) THEN "networkFirst"
    ELSE "other"

\* The branch of the fetch handler a request takes under a mode flag.
branchOf(method, url, cacheFirst) ==
    IF method # "GET" THEN "passthrough"
    ELSE IF modeAware(pathname(url)) /\ cacheFirst THEN "cacheFirst"
    ELSE IF modeAware(pathname(url)) THEN "networkFirst"
    ELSE "other"

\* Mutant of synth503: the plain-text response is built for every request.
synth503Plain(html) ==
    [status |-> 503, url |-> <<>>, contentType |-> "text/plain; charset=utf-8"]

\* The synthesized unavailability response.
synth503(html) ==
    [status |-> 503, url |-> <<>>,
     contentType |-> IF html THEN "text/html; charset=utf-8"
                     ELSE "text/plain; charset=utf-8"]

\* fetchWithCaseFallback: const isOnlineUrl = url.protocol === 'http:' || ... 'https:'
requestIsOnline(url) ==
    protocol(url) = <<"h","t","t","p",":">> \/ protocol(url) = <<"h","t","t","p","s",":">>

\* request.url.startsWith(self.location.origin)
sameOrigin(url) == startsWith(url, Origin)

NewReq(method, url, cacheFirst) ==
    [method |-> method, url |-> url,
     branch |-> branchOf(method, url, cacheFirst), mode |-> cacheFirst,
     pc |-> "new", vi |-> 0, req |-> <<>>, netResp |-> NoResp,
     resp |-> NoResp, via |-> "none", bg |-> "none", trace |-> <<>>,
     keyCached |-> cachesHas(caches, url),
     pathCached |-> cachesHas(caches, originOf(url) \o pathname(url))]

\* Mutant of setReq: every continuation of a request reads the mode flag again.
setReqReread(r, q) ==
    reqs' = [reqs EXCEPT ![r] = [q EXCEPT !.mode = cacheFirstMode,
                                          !.branch = branchOf(q.method, q.url,
                                                              cacheFirstMode)]]

\* A continuation of the handler of request r ends with request record q; the
\* branch taken at line 409 or 435 is part of the record.
setReq(r, q) == reqs' = [reqs EXCEPT ![r] = q]

\* .then(resp => resp ? resp : new Response(..., {status: 503})) of the two
\* mode-aware branches, applied to what fetchWithCaseFallback returned.
respond(q, resp, via) ==
    IF resp = NoResp
    THEN [q EXCEPT !.pc = "done", !.resp = synth503(isHtml(pathname(q.url))),
                   !.via = "synth"]
    ELSE [q EXCEPT !.pc = "done", !.resp = resp, !.via = via]

\* Mutant of firstLookup: the network is asked without looking in the cache.
firstLookupNetwork(q, cs) ==
    [q EXCEPT !.pc = "fetching", !.req = q.url, !.trace = @ \o <<"net">>]

\* The first consultation of fetchWithCaseFallback for an online request
\* (line 280): the cache, then the network on a miss.
firstLookup(q, cs) ==
    IF cachesHas(cs, q.url)
    THEN respond([q EXCEPT !.trace = Append(@, "cache")], cachesMatch(cs, q.url), "cache")
    ELSE [q EXCEPT !.pc = "fetching", !.req = q.url,
                   !.trace = @ \o <<"cache", "net">>]

\* The candidates of the relative-path part of fetchWithCaseFallback.
requestCandidates(url) ==
    LET variants == getCaseVariants(pathname(url))
    IN [i \in 1..Len(variants) |-> originOf(url) \o variants[i]]

\* Lines 303-370 of fetchWithCaseFallback (requests whose protocol is neither
\* http: nor https:): the cache probes before the network is tried.  The result
\* is the key that hit (<<>>: none) and whether the hit is stored again under
\* the request.
localProbe(q, cs) ==
    LET html == isHtml(pathname(q.url))
        pathOnly == originOf(q.url) \o pathname(q.url)
        cands == requestCandidates(q.url)
    IN IF html /\ cachesHas(cs, q.url) THEN [key |-> q.url, restore |-> FALSE]
       ELSE IF html /\ cachesHas(cs, pathOnly) THEN [key |-> pathOnly, restore |-> TRUE]
       ELSE IF \E i \in 1..Len(cands) : cachesHas(cs, cands[i])
       THEN [key |-> cands[CHOOSE i \in 1..Len(cands) :
                              /\ cachesHas(cs, cands[i])
                              /\ \A h \in 1..(i - 1) : ~cachesHas(cs, cands[h])],
             restore |-> html]
       ELSE [key |-> <<>>, restore |-> FALSE]

\* fetch handler: a fetch event is dispatched (to the active worker).
Intercept(method, url) ==
    /\ isActive
    /\ LET q == NewReq(method, url, cacheFirstMode)
           r == Len(reqs) + 1
       IN IF q.branch = "passthrough"
          THEN /\ reqs' = Append(reqs, [q EXCEPT !.pc = "done"])
               /\ UNCHANGED netLog
          ELSE IF q.branch = "other"
          THEN /\ reqs' = Append(reqs, [q EXCEPT !.pc = "fetching", !.req = url,
                                                 !.trace = <<"net">>])
               /\ netLog' = netLog \cup {[by |-> <<"req", r>>, url |-> url]}
          ELSE /\ reqs' = Append(reqs, [q EXCEPT !.pc = "match"])
               /\ UNCHANGED netLog
    /\ UNCHANGED <<caches, cacheFirstMode, clients, net, jobs, outbox, inbox, sw, probe>>

\* A page issues a request and the fetch event is dispatched.
FetchEvent(method, url) ==
    /\ Len(reqs) < MaxReqs
    /\ Intercept(method, url)

\* fetchWithCaseFallback: the cache lookup settles.
ReqMatch(r) ==
    /\ reqs[r].pc = "match"
    /\ LET q == reqs[r]
       IN IF requestIsOnline(q.url)
          THEN /\ setReq(r, firstLookup(q, caches))
               /\ netLog' = IF firstLookup(q, caches).pc = "fetching"
                            THEN netLog \cup {[by |-> <<"req", r>>, url |-> q.url]}
                            ELSE netLog
               /\ UNCHANGED caches
          ELSE LET hit == localProbe(q, caches)
                   cands == requestCandidates(q.url)
               IN IF hit.key = <<>>
                  THEN /\ setReq(r, [q EXCEPT !.pc = "fetching", !.vi = 1,
                                              !.req = cands[1],
                                              !.trace = @ \o <<"cache", "net">>])
                       /\ netLog' = netLog \cup {[by |-> <<"req", r>>, url |-> cands[1]]}
                       /\ UNCHANGED caches
                  ELSE /\ setReq(r, respond([q EXCEPT !.trace = Append(@, "cache")],
                                            cachesMatch(caches, hit.key), "cache"))
                       /\ caches' = IF hit.restore
                                    THEN cachePut(caches, current, q.url,
                                                  cachesMatch(caches, hit.key))
                                    ELSE caches
                       /\ UNCHANGED netLog
    /\ UNCHANGED <<cacheFirstMode, clients, net, jobs, outbox, inbox, sw, probe>>

\* The pending network request of an intercepted request settles.
ReqResponse(r) ==
    /\ reqs[r].pc = "fetching"
    /\ settles(reqs[r].req)
    /\ LET q == reqs[r]
           status == NetStatus(net, q.req)
           cands == requestCandidates(q.url)
       IN IF q.branch = "other"
          THEN \* fetch(event.request).then(...).catch(...)
               IF status = 0
               THEN /\ setReq(r, [q EXCEPT !.pc = "fallback"])
                    /\ UNCHANGED netLog
               ELSE /\ setReq(r, [q EXCEPT !.pc = "done", !.resp = Resp(status, q.req),
                                           !.via = "network",
                                           !.netResp = Resp(status, q.req),
                                           !.bg = IF status = 200 /\ sameOrigin(q.url)
                                                  THEN "pending" ELSE "none"])
                    /\ UNCHANGED netLog
          ELSE IF status = 200
          THEN /\ setReq(r, [q EXCEPT !.pc = "put", !.netResp = Resp(status, q.req)])
               /\ UNCHANGED netLog
          ELSE IF ~requestIsOnline(q.url) /\ q.vi < Len(cands)
          THEN /\ setReq(r, [q EXCEPT !.vi = @ + 1, !.req = cands[q.vi + 1]])
               /\ netLog' = netLog \cup {[by |-> <<"req", r>>, url |-> cands[q.vi + 1]]}
          ELSE /\ setReq(r, respond(q, NoResp, "synth"))
               /\ UNCHANGED netLog
    /\ UNCHANGED <<caches, cacheFirstMode, clients, net, jobs, outbox, inbox, sw, probe>>

\* Whether fetchWithCaseFallback stores the network response of a request.
storesResponse(q) == requestIsOnline(q.url) \/ sameOrigin(q.url)

\* fetchWithCaseFallback: caches.open and cache.put(request, clone) settle; a
\* failed write is caught and the function returns null.
ReqPut(r) ==
    /\ reqs[r].pc = "put"
    /\ LET q == reqs[r]
       IN IF ~storesResponse(q)
          THEN /\ setReq(r, respond(q, q.netResp, "network"))
               /\ UNCHANGED <<caches, netLog>>
          ELSE \E written \in BOOLEAN :
                 IF written
                 THEN /\ caches' = cachePut(caches, current, q.url, q.netResp)
                      /\ setReq(r, respond(q, q.netResp, "network"))
                      /\ UNCHANGED netLog
                 ELSE IF ~requestIsOnline(q.url) /\ q.vi < Len(requestCandidates(q.url))
                 THEN \* line 386: the next candidate is tried
                      /\ setReq(r, [q EXCEPT !.pc = "fetching", !.vi = @ + 1,
                                             !.req = requestCandidates(q.url)[q.vi + 1]])
                      /\ netLog' = netLog \cup
                            {[by |-> <<"req", r>>,
                              url |-> requestCandidates(q.url)[q.vi + 1]]}
                      /\ UNCHANGED caches
                 ELSE /\ setReq(r, respond(q, NoResp, "synth"))
                      /\ UNCHANGED <<caches, netLog>>
    /\ UNCHANGED <<cacheFirstMode, clients, net, jobs, outbox, inbox, sw, probe>>

\* "other" branch: caches.open(CACHE_NAME).then(cache => cache.put(...)), not
\* awaited by the response.
ReqBackgroundPut(r) ==
    /\ reqs[r].bg = "pending"
    /\ \E written \in BOOLEAN :
         IF written
         THEN /\ caches' = cachePut(caches, current, reqs[r].url, reqs[r].netResp)
              /\ setReq(r, [reqs[r] EXCEPT !.bg = "done"])
         ELSE /\ setReq(r, [reqs[r] EXCEPT !.bg = "failed"])
              /\ UNCHANGED caches
    /\ UNCHANGED <<cacheFirstMode, clients, net, jobs, outbox, inbox, netLog, sw, probe>>

\* "other" branch, network failed: caches.match(event.request) settles.
ReqFallback(r) ==
    /\ reqs[r].pc = "fallback"
    /\ LET q == [reqs[r] EXCEPT !.trace = Append(@, "cache")]
       IN IF cachesHas(caches, q.url)
          THEN setReq(r, respond(q, cachesMatch(caches, q.url), "cache"))
          ELSE setReq(r, respond(q, NoResp, "synth"))
    /\ UNCHANGED <<caches, cacheFirstMode, clients, net, jobs, outbox, inbox, netLog, sw, probe>>

\* Mutant of MsgUpdateCacheStrategy: the flag is set to the opposite value.
MsgUpdateCacheStrategyInverted(cacheFirst) ==
    /\ cacheFirstMode' = ~cacheFirst
    /\ sw' = [sw EXCEPT !.strategy = [seen |-> TRUE, cacheFirst |-> cacheFirst]]
    /\ UNCHANGED <<caches, clients, net, jobs, outbox, inbox, reqs, netLog, probe>>

\* fetchWithCaseFallback, line 280: caches.match rejects.  The await is outside
\* the try block and the handler's promise chain has no catch, so the promise
\* handed to respondWith rejects.
ReqMatchFail(r) ==
    /\ reqs[r].pc = "match"
    /\ requestIsOnline(reqs[r].url)
    /\ setReq(r, [reqs[r] EXCEPT !.pc = "done", !.via = "rejected",
                                 !.trace = Append(@, "cache")])
    /\ UNCHANGED <<caches, cacheFirstMode, clients, net, jobs, outbox, inbox, netLog,
                   sw, probe>>

\* "other" branch, line 481: caches.match rejects inside the catch callback;
\* nothing handles the rejection.
ReqFallbackFail(r) ==
    /\ reqs[r].pc = "fallback"
    /\ setReq(r, [reqs[r] EXCEPT !.pc = "done", !.via = "rejected",
                                 !.trace = Append(@, "cache")])
    /\ UNCHANGED <<caches, cacheFirstMode, clients, net, jobs, outbox, inbox, netLog,
                   sw, probe>>

\* message handler, type 'updateCacheStrategy'; sw.strategy records the
\* message that was received.
MsgUpdateCacheStrategy(cacheFirst) ==
    /\ cacheFirstMode' = cacheFirst
    /\ sw' = [sw EXCEPT !.strategy = [seen |-> TRUE, cacheFirst |-> cacheFirst]]
    /\ UNCHANGED <<caches, clients, net, jobs, outbox, inbox, reqs, netLog, probe>>

----------------------------------------------------------------------------
(* Lifecycle: the install and activate handlers *)

coreKeys == {Key(CORE_FILES[i]) : i \in 1..Len(CORE_FILES)}

\* install handler: caches.open(CACHE_NAME) is requested inside waitUntil and
\* self.skipWaiting() is called before the handler returns.
InstallEvent ==
    /\ sw.install = "none"
    /\ sw' = [sw EXCEPT !.install = "opening", !.skipWaiting = TRUE]
    /\ UNCHANGED <<caches, cacheFirstMode, clients, net, jobs, outbox, inbox, reqs,
                   netLog, probe>>

\* install handler: caches.open settles; cache.addAll(CORE_FILES) requests
\* every core file.
InstallOpen ==
    /\ sw.install = "opening"
    /\ \E opened \in BOOLEAN :
         IF opened
         THEN /\ caches' = cachesOpen(caches, CACHE_NAME)
              /\ sw' = [sw EXCEPT !.install = "adding"]
              /\ netLog' = netLog \cup {[by |-> <<"install">>, url |-> k] : k \in coreKeys}
         ELSE /\ sw' = [sw EXCEPT !.install = "failed"]
              /\ UNCHANGED <<caches, netLog>>
    /\ UNCHANGED <<cacheFirstMode, clients, net, jobs, outbox, inbox, reqs, probe>>

\* Mutant of addAllStores: the core files that were fetched are stored even
\* when some other core file was not.
addAllStoresAny(n) == \E k \in coreKeys : ok(NetStatus(n, k))

\* cache.addAll stores its responses only when every one of them is ok;
\* otherwise it rejects and stores nothing.
addAllStores(n) == \A k \in coreKeys : ok(NetStatus(n, k))

\* install handler: cache.addAll settles, and with it the promise handed to
\* waitUntil.
InstallAddAll ==
    /\ sw.install = "adding"
    /\ \E written \in BOOLEAN :
         IF addAllStores(net) /\ written
         THEN /\ caches' =
                   [caches EXCEPT ![CACHE_NAME] =
                      [k \in DOMAIN caches[CACHE_NAME] \cup
                              {c \in coreKeys : ok(NetStatus(net, c))} |->
                         IF k \in coreKeys /\ ok(NetStatus(net, k))
                         THEN Resp(NetStatus(net, k), k)
                         ELSE caches[CACHE_NAME][k]]]
              /\ sw' = [sw EXCEPT !.install = "ok"]
         ELSE /\ sw' = [sw EXCEPT !.install = "failed"]
              /\ UNCHANGED caches
    /\ UNCHANGED <<cacheFirstMode, clients, net, jobs, outbox, inbox, reqs, netLog, probe>>

\* Mutant of staleKeys: every generation is deleted.
staleKeysAll(keys) == keys

\* keys.filter(k => k !== CACHE_NAME)
staleKeys(keys) == {k \in keys : k # CACHE_NAME}

\* activate handler: caches.keys() is requested inside waitUntil and
\* self.clients.claim() is called before the handler returns.  The event is
\* dispatched once the installation succeeded; it can be dispatched again.
ActivateEvent ==
    /\ sw.install = "ok"
    /\ sw.activate \in {"none", "done", "failed"}
    /\ sw.activations < MaxActivations
    /\ sw' = [sw EXCEPT !.activate = "keys", !.deleteFailed = FALSE,
                        !.claim = "pending", !.activations = @ + 1]
    /\ UNCHANGED <<caches, cacheFirstMode, clients, net, jobs, outbox, inbox, reqs,
                   netLog, probe>>

\* activate handler: caches.keys() settles; caches.delete is requested for
\* every name that passes the filter.
ActivateKeys ==
    /\ sw.activate = "keys"
    /\ LET dels == staleKeys(DOMAIN caches)
       IN sw' = [sw EXCEPT !.toDelete = dels,
                           !.activate = IF dels = {} THEN "done" ELSE "deleting"]
    /\ UNCHANGED <<caches, cacheFirstMode, clients, net, jobs, outbox, inbox, reqs,
                   netLog, probe>>

\* activate handler: one caches.delete(k) settles; Promise.all settles with the
\* last of them (it rejects when a deletion failed).  sw.deleted records the
\* generations deleted so far.
ActivateDelete(k) ==
    /\ sw.activate = "deleting"
    /\ k \in sw.toDelete
    /\ \E deleted \in BOOLEAN :
         LET rest == sw.toDelete \ {k}
             failed == sw.deleteFailed \/ ~deleted
         IN /\ caches' = IF deleted
                         THEN [g \in DOMAIN caches \ {k} |-> caches[g]]
                         ELSE caches
            /\ sw' = [sw EXCEPT !.toDelete = rest, !.deleteFailed = failed,
                                !.deleted = IF deleted THEN @ \cup {k} ELSE @,
                                !.activate = IF rest # {} THEN "deleting"
                                             ELSE IF failed THEN "failed" ELSE "done"]
    /\ UNCHANGED <<cacheFirstMode, clients, net, jobs, outbox, inbox, reqs, netLog, probe>>

\* activate handler: the promise of self.clients.claim() settles; the open
\* pages of the scope are controlled by the worker from now on.
ActivateClaim ==
    /\ sw.claim = "pending"
    /\ clients' = clients \cup sw.pages
    /\ sw' = [sw EXCEPT !.claim = "done", !.pages = {}]
    /\ UNCHANGED <<caches, cacheFirstMode, net, jobs, outbox, inbox, reqs, netLog, probe>>

\* getCaseVariants is applied to the path of the probe.
ApplyGetCaseVariants ==
    /\ ~probe.applied
    /\ probe' = [probe EXCEPT !.variants = getCaseVariants(probe.path),
                              !.applied = TRUE]
    /\ UNCHANGED <<caches, cacheFirstMode, clients, net, jobs, outbox, inbox, reqs,
                   netLog, sw>>

----------------------------------------------------------------------------
(* Initial states: the worker has just started; the cache store is durable   *)
(* and holds what earlier runs of the worker stored.                         *)

\* getCaseVariants has not been applied.
NoProbe == [path |-> <<>>, variants |-> <<>>, applied |-> FALSE]

StoredResp(k) == Resp(200, k)
GenOf(keys) == [k \in keys |-> StoredResp(k)]

InitKeySets == {{}, {Key(withSlash(ResA))},
                {Origin \o FileB, Origin \o ViewHtml, Origin \o ApiPath},
                {Key(withSlash(ResA)), Key(ResB), ResR}}

Init ==
    /\ \E ks \in InitKeySets, stale \in BOOLEAN :
         caches = IF stale
                  THEN [g \in {CACHE_NAME, StaleName} |->
                          IF g = CACHE_NAME THEN GenOf(ks) ELSE GenOf({Origin \o ViewHtml})]
                  ELSE [g \in {CACHE_NAME} |-> GenOf(ks)]
    /\ cacheFirstMode = FALSE
    /\ clients \in {{1}, {1, 2}}
    /\ net \in NetConditions
    /\ jobs = <<>>
    /\ outbox = <<>>
    /\ inbox = [c \in ClientIds |-> <<>>]
    /\ reqs = <<>>
    /\ netLog = {}
    /\ sw = StartedWorker
    /\ probe = NoProbe

\* A step of one prefetch job.
JobStep(j) ==
    \/ JobLookup(j)
    \/ JobOpen(j)
    \/ \E k \in 1..batchSize : TaskCheck(j, k)
    \/ \E k \in 1..batchSize : TaskOrigin(j, k)
    \/ \E k \in 1..batchSize : TaskResponse(j, k)
    \/ \E k \in 1..batchSize : TaskPut(j, k)
    \/ BatchSettle(j)

\* The steps of the prefetch coordinator and of message delivery.
NextPrefetch ==
    \/ \E rs \in JobLists, f \in BOOLEAN, src \in ClientIds \cup {NoClient} :
          MsgCacheResources(rs, f, src)
    \/ \E j \in 1..Len(jobs) : JobLookup(j)
    \/ \E j \in 1..Len(jobs) : JobOpen(j)
    \/ \E j \in 1..Len(jobs), k \in 1..batchSize : TaskCheck(j, k)
    \/ \E j \in 1..Len(jobs), k \in 1..batchSize : TaskOrigin(j, k)
    \/ \E j \in 1..Len(jobs), k \in 1..batchSize : TaskResponse(j, k)
    \/ \E j \in 1..Len(jobs), k \in 1..batchSize : TaskPut(j, k)
    \/ \E j \in 1..Len(jobs) : BatchSettle(j)
    \/ Deliver
    \/ \E c \in ClientIds : ClientClose(c)

\* The steps of the request interceptor and of the mode flag.
NextFetch ==
    \/ \E m \in Methods, u \in RequestUrls : FetchEvent(m, u)
    \/ \E r \in 1..Len(reqs) : ReqMatch(r)
    \/ \E r \in 1..Len(reqs) : ReqResponse(r)
    \/ \E r \in 1..Len(reqs) : ReqPut(r)
    \/ \E r \in 1..Len(reqs) : ReqBackgroundPut(r)
    \/ \E r \in 1..Len(reqs) : ReqFallback(r)
    \/ \E b \in BOOLEAN : MsgUpdateCacheStrategy(b)


\* The worker has started with the repeated resource of LongList in the cache.
InitBatch ==
    /\ caches = [g \in {CACHE_NAME} |-> GenOf({Key(withSlash(ResA))})]
    /\ cacheFirstMode = FALSE
    /\ clients \in {{1}, {1, 2}}
    /\ net \in {"online", "partial"}
    /\ jobs = <<>>
    /\ outbox = <<>>
    /\ inbox = [c \in ClientIds |-> <<>>]
    /\ reqs = <<>>
    /\ netLog = {}
    /\ sw = StartedWorker
    /\ probe = NoProbe

\* The prefetch coordinator on a list of more than one batch.
NextBatch ==
    \/ \E src \in ClientIds \cup {NoClient} : MsgCacheResources(LongList, FALSE, src)
    \/ \E j \in 1..Len(jobs) : JobLookup(j)
    \/ \E j \in 1..Len(jobs) : JobOpen(j)
    \/ \E j \in 1..Len(jobs), k \in 1..batchSize : TaskCheck(j, k)
    \/ \E j \in 1..Len(jobs), k \in 1..batchSize : TaskOrigin(j, k)
    \/ \E j \in 1..Len(jobs), k \in 1..batchSize : TaskResponse(j, k)
    \/ \E j \in 1..Len(jobs), k \in 1..batchSize : TaskPut(j, k)
    \/ \E j \in 1..Len(jobs) : BatchSettle(j)
    \/ Deliver
    \/ \E c \in ClientIds : ClientClose(c)

\* The steps of the install and activate handlers.
NextLifecycle ==
    \/ InstallEvent
    \/ InstallOpen
    \/ InstallAddAll
    \/ ActivateEvent
    \/ ActivateKeys
    \/ \E k \in {OlderName, StaleName, CACHE_NAME} : ActivateDelete(k)
    \/ ActivateClaim

\* A new worker is about to be installed.  The cache store holds what earlier
\* versions of the worker, and earlier runs of this version, stored.
LifecycleGens ==
    {[g \in gs |-> IF g = CACHE_NAME THEN GenOf(ks) ELSE GenOf({Origin \o ViewHtml})] :
        gs \in SUBSET {OlderName, StaleName, CACHE_NAME}, ks \in InitKeySets}

InitLifecycle ==
    /\ caches \in LifecycleGens
    /\ cacheFirstMode = FALSE
    /\ clients = {}
    /\ net \in NetConditions
    /\ jobs = <<>>
    /\ outbox = <<>>
    /\ inbox = [c \in ClientIds |-> <<>>]
    /\ reqs = <<>>
    /\ netLog = {}
    /\ sw \in {FreshWorker(ps) : ps \in {{1}, {1, 2}}}
    /\ probe = NoProbe

\* The interceptor when reads of the cache store can fail.
NextFaults ==
    \/ \E m \in Methods, u \in RequestUrls : FetchEvent(m, u)
    \/ \E r \in 1..Len(reqs) : ReqMatch(r)
    \/ \E r \in 1..Len(reqs) : ReqMatchFail(r)
    \/ \E r \in 1..Len(reqs) : ReqResponse(r)
    \/ \E r \in 1..Len(reqs) : ReqPut(r)
    \/ \E r \in 1..Len(reqs) : ReqBackgroundPut(r)
    \/ \E r \in 1..Len(reqs) : ReqFallback(r)
    \/ \E r \in 1..Len(reqs) : ReqFallbackFail(r)
    \/ \E b \in BOOLEAN : MsgUpdateCacheStrategy(b)

\* Every platform promise a request waits for settles.
FairRequests ==
    \A r \in 1..MaxReqs :
        /\ WF_vars(r <= Len(reqs) /\ (ReqMatch(r) \/ ReqMatchFail(r)))
        /\ WF_vars(r <= Len(reqs) /\ ReqResponse(r))
        /\ WF_vars(r <= Len(reqs) /\ ReqPut(r))
        /\ WF_vars(r <= Len(reqs) /\ (ReqFallback(r) \/ ReqFallbackFail(r)))

\* getCaseVariants applied to one path.
PathChars == {"a", "B", ".", "/"}
Paths == UNION {[1..n -> PathChars] : n \in 1..MaxPathLen}

InitVariants ==
    /\ caches = [g \in {CACHE_NAME} |-> GenOf({})]
    /\ cacheFirstMode = FALSE
    /\ clients = {1}
    /\ net = "online"
    /\ jobs = <<>>
    /\ outbox = <<>>
    /\ inbox = [c \in ClientIds |-> <<>>]
    /\ reqs = <<>>
    /\ netLog = {}
    /\ sw = StartedWorker
    /\ probe \in {[path |-> p, variants |-> <<>>, applied |-> FALSE] : p \in Paths}

NextVariants == ApplyGetCaseVariants

\* The whole worker on a few inputs: a new worker that is installed and
\* activated, or a worker that was started again, receiving messages and
\* fetch events.
WorkerUrls == {Origin \o withSlash(ResA), Origin \o ApiPath}

InitWorker ==
    /\ caches = [g \in {StaleName, CACHE_NAME} |->
                   IF g = CACHE_NAME THEN GenOf({}) ELSE GenOf({Origin \o ViewHtml})]
    /\ cacheFirstMode = FALSE
    /\ net \in {"online", "offline"}
    /\ \/ sw = FreshWorker({1}) /\ clients = {}
       \/ sw = StartedWorker /\ clients = {1}
    /\ jobs = <<>>
    /\ outbox = <<>>
    /\ inbox = [c \in ClientIds |-> <<>>]
    /\ reqs = <<>>
    /\ netLog = {}
    /\ probe = NoProbe

NextWorker ==
    \/ InstallEvent
    \/ InstallOpen
    \/ InstallAddAll
    \/ ActivateEvent
    \/ ActivateKeys
    \/ \E k \in {OlderName, StaleName, CACHE_NAME} : ActivateDelete(k)
    \/ ActivateClaim
    \/ \E b \in BOOLEAN : MsgUpdateCacheStrategy(b)
    \/ \E m \in Methods, u \in WorkerUrls : FetchEvent(m, u)
    \/ \E r \in 1..Len(reqs) : ReqMatch(r)
    \/ \E r \in 1..Len(reqs) : ReqResponse(r)
    \/ \E r \in 1..Len(reqs) : ReqPut(r)
    \/ \E r \in 1..Len(reqs) : ReqBackgroundPut(r)
    \/ \E r \in 1..Len(reqs) : ReqFallback(r)
    \/ \E f \in BOOLEAN, src \in {1, NoClient} : MsgCacheResources(<<ResA>>, f, src)
    \/ \E j \in 1..Len(jobs) : JobLookup(j)
    \/ \E j \in 1..Len(jobs) : JobOpen(j)
    \/ \E j \in 1..Len(jobs), k \in 1..batchSize : TaskCheck(j, k)
    \/ \E j \in 1..Len(jobs), k \in 1..batchSize : TaskOrigin(j, k)
    \/ \E j \in 1..Len(jobs), k \in 1..batchSize : TaskResponse(j, k)
    \/ \E j \in 1..Len(jobs), k \in 1..batchSize : TaskPut(j, k)
    \/ \E j \in 1..Len(jobs) : BatchSettle(j)
    \/ Deliver

Next == NextPrefetch \/ NextFetch \/ NextLifecycle

Spec == Init /\ [][Next]_vars

\* The prefetch coordinator alone, and the request interceptor alone.
SpecPrefetch == Init /\ [][NextPrefetch]_vars
SpecFetch == Init /\ [][NextFetch]_vars
SpecBatch == InitBatch /\ [][NextBatch]_vars

\* The install and activate handlers; the interceptor with failing cache
\* reads; getCaseVariants alone.
SpecLifecycle == InitLifecycle /\ [][NextLifecycle]_vars
SpecFaults == Init /\ [][NextFaults]_vars /\ FairRequests
SpecVariants == InitVariants /\ [][NextVariants]_vars
SpecWorker == InitWorker /\ [][NextWorker]_vars

\* The worker while the server of the foreign resource never answers: requests
\* and prefetch jobs for the foreign resource and for a resource of the origin,
\* and mode messages.
HangUrls == {ResR, Origin \o withSlash(ResA)}
HangLists == {<<ResR>>, <<ResA>>}

InitHang ==
    /\ caches = [g \in {CACHE_NAME} |-> GenOf({})]
    /\ cacheFirstMode = FALSE
    /\ clients = {1}
    /\ net = "hang"
    /\ jobs = <<>>
    /\ outbox = <<>>
    /\ inbox = [c \in ClientIds |-> <<>>]
    /\ reqs = <<>>
    /\ netLog = {}
    /\ sw = StartedWorker
    /\ probe = NoProbe

NextHang ==
    \/ \E u \in HangUrls : Len(reqs) + Len(jobs) < MaxHang /\ Intercept("GET", u)
    \/ \E r \in 1..Len(reqs) : ReqMatch(r)
    \/ \E r \in 1..Len(reqs) : ReqResponse(r)
    \/ \E r \in 1..Len(reqs) : ReqPut(r)
    \/ \E b \in BOOLEAN : MsgUpdateCacheStrategy(b)
    \/ \E rs \in HangLists :
          Len(reqs) + Len(jobs) < MaxHang /\ AcceptCacheResources(rs, FALSE, 1)
    \/ \E j \in 1..Len(jobs) : JobOpen(j)
    \/ \E j \in 1..Len(jobs) : TaskCheck(j, 1)
    \/ \E j \in 1..Len(jobs) : TaskOrigin(j, 1)
    \/ \E j \in 1..Len(jobs) : TaskResponse(j, 1)
    \/ \E j \in 1..Len(jobs) : TaskPut(j, 1)
    \/ \E j \in 1..Len(jobs) : BatchSettle(j)
    \/ Deliver

\* Job j waits for a platform promise that settles: the guards of JobOpen,
\* TaskCheck, TaskOrigin, TaskResponse, TaskPut and BatchSettle.
JobReady(j) ==
    /\ j <= Len(jobs)
    /\ \/ jobs[j].phase = "open"
       \/ /\ jobs[j].phase = "batch"
          /\ \/ \A k \in 1..Len(jobs[j].tasks) : Settled(jobs[j].tasks[k])
             \/ \E k \in 1..Len(jobs[j].tasks) :
                   \/ jobs[j].tasks[k].pc \in {"check", "origin", "put"}
                   \/ /\ jobs[j].tasks[k].pc = "fetching"
                      /\ settles(jobs[j].tasks[k].req)

\* A step of job j.
JobMoves(j) == j <= Len(jobs) /\ j <= Len(jobs') /\ jobs'[j] # jobs[j]

\* Every platform promise settles (the cache store's, the client list's, and
\* the network's unless the server never answers), and messages are delivered.
\* The condition on jobs is weak fairness of the steps of job j with their
\* enabling condition written out as JobReady(j).
FairHang ==
    /\ \A r \in 1..MaxHang :
          WF_vars(r <= Len(reqs) /\ (ReqMatch(r) \/ ReqResponse(r) \/ ReqPut(r)))
    /\ \A j \in 1..MaxHang : []<>(~JobReady(j)) \/ []<><<JobMoves(j)>>_vars
    /\ WF_vars(Deliver)

SpecHang == InitHang /\ [][NextHang]_vars /\ FairHang

\* Every writer of the cache store: install, the interceptor on a media
\* request for a missing file (/b.PNG), for a file of the server (/b.png) and
\* on a request of the remaining kind (/api), and a prefetch job for b.PNG.
WriteUrls == {Origin \o ResB, Origin \o FileB, Origin \o ApiPath}

InitWrites ==
    /\ caches = [g \in {StaleName} |-> GenOf({Origin \o ViewHtml})]
    /\ cacheFirstMode = FALSE
    /\ clients = {}
    /\ net \in {"online", "partial"}
    /\ jobs = <<>>
    /\ outbox = <<>>
    /\ inbox = [c \in ClientIds |-> <<>>]
    /\ reqs = <<>>
    /\ netLog = {}
    /\ sw = FreshWorker({1})
    /\ probe = NoProbe

NextWrites ==
    \/ InstallEvent
    \/ InstallOpen
    \/ InstallAddAll
    \/ ActivateEvent
    \/ ActivateKeys
    \/ ActivateDelete(StaleName)
    \/ ActivateClaim
    \/ \E u \in WriteUrls : FetchEvent("GET", u)
    \/ \E r \in 1..Len(reqs) : ReqMatch(r)
    \/ \E r \in 1..Len(reqs) : ReqResponse(r)
    \/ \E r \in 1..Len(reqs) : ReqPut(r)
    \/ \E r \in 1..Len(reqs) : ReqBackgroundPut(r)
    \/ \E f \in BOOLEAN : MsgCacheResources(<<ResB>>, f, 1)
    \/ \E j \in 1..Len(jobs) : JobOpen(j)
    \/ \E j \in 1..Len(jobs) : TaskCheck(j, 1)
    \/ \E j \in 1..Len(jobs) : TaskOrigin(j, 1)
    \/ \E j \in 1..Len(jobs) : TaskResponse(j, 1)
    \/ \E j \in 1..Len(jobs) : TaskPut(j, 1)
    \/ \E j \in 1..Len(jobs) : BatchSettle(j)
    \/ Deliver

SpecWrites == InitWrites /\ [][NextWrites]_vars

----------------------------------------------------------------------------
(* Properties of the prefetch coordinator *)

\* Every message sent so far, delivered or not.
AllMsgs ==
    {outbox[i].msg : i \in 1..Len(outbox)} \cup
    UNION {{inbox[c][i] : i \in 1..Len(inbox[c])} : c \in ClientIds}

Completions == {m \in AllMsgs : m.type = "cacheComplete"}

\* C1: the tallies of every cacheComplete message satisfy
\* success + failed + skipped = total, total is the length of the job's
\* resource list, and updated <= success.
C1_BatchAccounting ==
    \A m \in Completions :
        /\ m.success + m.failed + m.skipped = m.total
        /\ m.total = Len(jobs[m.job].resources)
        /\ m.updated <= m.success

\* A page has received the completion of a job of two resources, one of which
\* failed and the other of which was updated.
C1_Witness ==
    \E c \in ClientIds : \E i \in 1..Len(inbox[c]) :
        /\ inbox[c][i].type = "cacheComplete"
        /\ inbox[c][i].total = 2
        /\ inbox[c][i].failed = 1
        /\ inbox[c][i].updated = 1

\* The messages of job j a page has received, in order of receipt.
MsgsOf(c, j) == SelectSeq(inbox[c], LAMBDA m : m.job = j)

JobDrained(j) ==
    /\ jobs[j].phase = "done"
    /\ \A i \in 1..Len(outbox) : outbox[i].msg.job # j

\* C2: in what a page receives of a job, a cacheComplete message is the last
\* one (so no cacheProgress follows it and there is at most one); and once the
\* job has finished and its messages are delivered, the requesting page, if
\* still open, holds one cacheProgress per resource followed by exactly one
\* cacheComplete (for an empty list: only the all-zero completion).
C2_ProgressThenComplete ==
    \A j \in 1..Len(jobs) :
        /\ \A c \in ClientIds :
              LET s == MsgsOf(c, j)
              IN \A i \in 1..Len(s) : s[i].type = "cacheComplete" => i = Len(s)
        /\ (JobDrained(j) /\ jobs[j].clientId \in clients) =>
              LET s == MsgsOf(jobs[j].clientId, j)
                  n == Len(jobs[j].resources)
              IN /\ Len(s) = n + 1
                 /\ \A i \in 1..n : s[i].type = "cacheProgress"
                 /\ s[n + 1].type = "cacheComplete"
                 /\ n = 0 => /\ s[1].success = 0 /\ s[1].failed = 0
                             /\ s[1].skipped = 0 /\ s[1].updated = 0
                             /\ s[1].total = 0

\* The requesting page holds two progress messages and then the completion.
C2_Witness ==
    \E j \in 1..Len(jobs) :
        /\ JobDrained(j)
        /\ jobs[j].clientId \in clients
        /\ Len(jobs[j].resources) = 2
        /\ Len(MsgsOf(jobs[j].clientId, j)) = 3
        /\ MsgsOf(jobs[j].clientId, j)[3].type = "cacheComplete"

\* The resource is in the current generation under its normalized key or
\* under a case variant of its extension.
CachedSomeCase(cs, url) ==
    /\ current \in DOMAIN cs
    /\ IF isOnlineUrl(url) THEN url \in DOMAIN cs[current]
       ELSE \E v \in {getCaseVariants(withSlash(url))[i] :
                        i \in 1..Len(getCaseVariants(withSlash(url)))} :
               Origin \o v \in DOMAIN cs[current]

\* The step taken is the membership check of task k of job j.
IsCheckStep(j, k) ==
    /\ jobs[j].phase = "batch"
    /\ k \in 1..Len(jobs[j].tasks)
    /\ jobs[j].tasks[k].pc = "check"
    /\ jobs'[j].tasks[k] # jobs[j].tasks[k]

NetRequestsOf(by) == {e \in netLog : e.by = by}

\* C3: without forceUpdate, a resource that is in the current generation (under
\* its key or a case variant) when its task checks membership is skipped by
\* that very step, which issues no network request and leaves the cache store
\* unchanged; a resource classified as skipped never had a network request.
C3_CachedIsSkipped ==
    /\ [][\A j \in 1..Len(jobs) : \A k \in 1..batchSize :
            (/\ IsCheckStep(j, k)
             /\ ~jobs[j].forceUpdate
             /\ CachedSomeCase(caches, jobs[j].tasks[k].url))
            => /\ jobs'[j].tasks[k].pc = "skipped"
               /\ netLog' = netLog
               /\ caches' = caches]_vars
    /\ [](\A j \in 1..Len(jobs) : \A i \in 1..Len(jobs[j].classes) :
            jobs[j].classes[i].class = "skipped"
            => NetRequestsOf(<<"job", j, i>>) = {})

\* A resource cached only under another spelling of its extension was skipped.
C3_Witness ==
    \E j \in 1..Len(jobs) : \E i \in 1..Len(jobs[j].classes) :
        /\ jobs[j].classes[i].class = "skipped"
        /\ jobs[j].classes[i].url = ResB
        /\ Key(ResB) \notin DOMAIN caches[current]

\* C4: a resource counts as updated exactly if forceUpdate was set, it was
\* cached when its task checked membership, and its fetch and store succeeded;
\* the completion reports the number of such resources, which is 0 without
\* forceUpdate, and with forceUpdate nothing is skipped.
C4_UpdatedIff ==
    /\ [][\A j \in 1..Len(jobs) : \A k \in 1..batchSize :
            IsCheckStep(j, k)
            => jobs'[j].tasks[k].wasCached
                  = CachedSomeCase(caches, jobs[j].tasks[k].url)]_vars
    /\ [](\A j \in 1..Len(jobs) :
            /\ \A i \in 1..Len(jobs[j].classes) :
                  jobs[j].classes[i].updated
                  <=> (/\ jobs[j].forceUpdate
                       /\ jobs[j].classes[i].wasCached
                       /\ jobs[j].classes[i].class = "success")
            /\ \A m \in Completions :
                  m.job = j =>
                    /\ m.updated = Cardinality({i \in 1..Len(jobs[j].classes) :
                                                  jobs[j].classes[i].updated})
                    /\ ~jobs[j].forceUpdate => m.updated = 0
                    /\ jobs[j].forceUpdate => m.skipped = 0)

\* A forced job re-fetched two resources, one of which had been cached.
C4_Witness ==
    \E m \in Completions :
        /\ jobs[m.job].forceUpdate
        /\ m.success = 2
        /\ m.updated = 1

\* The guards of JobStep(j): the job awaits its client or its cache, or one of
\* its tasks awaits a result, or the whole batch has settled.
JobCanStep(j) ==
    \/ jobs[j].phase \in {"lookup", "open"}
    \/ /\ jobs[j].phase = "batch"
       /\ \/ \E k \in 1..Len(jobs[j].tasks) :
                jobs[j].tasks[k].pc \in {"check", "origin", "fetching", "put"}
          \/ \A k \in 1..Len(jobs[j].tasks) : Settled(jobs[j].tasks[k])

\* C5: a resource whose resolution fails is counted as failed and does not
\* abort the job: a job that has not finished can always take a step, and a
\* finished job has classified every resource of its list, in list order, in
\* the same batch as the failure and in later batches.
C5_FailureDoesNotAbort ==
    \A j \in 1..Len(jobs) :
        /\ jobs[j].phase # "done" => JobCanStep(j)
        /\ \A i \in 1..Len(jobs[j].classes) :
              /\ jobs[j].classes[i].url = cacheUrlOf(jobs[j].resources[i])
              /\ jobs[j].classes[i].class = "failed"
                    <=> jobs[j].classes[i].err # "none"
        /\ jobs[j].phase = "done" =>
              /\ Len(jobs[j].classes) = Len(jobs[j].resources)
              /\ jobs[j].failed = Cardinality({i \in 1..Len(jobs[j].classes) :
                                                 jobs[j].classes[i].class = "failed"})

\* A job of two batches finished although its first resource failed: the
\* second resource (same batch) was skipped and the last one (second batch)
\* was fetched and stored.
C5_Witness ==
    \E j \in 1..Len(jobs) :
        /\ jobs[j].phase = "done"
        /\ Len(jobs[j].classes) = batchSize + 1
        /\ jobs[j].classes[1].class = "failed"
        /\ jobs[j].classes[2].class = "skipped"
        /\ jobs[j].classes[batchSize + 1].class = "success"

Distinct(seq) == \A a, b \in 1..Len(seq) : seq[a] = seq[b] => a = b

\* The exact URL of a resource answers with a 2xx status.
Fetchable(url) == ok(NetStatus(net, Key(StripQuery(cacheUrlOf(url)))))

\* C6: a finished job without forceUpdate over distinct resources, none of
\* which was cached and all of which are fetchable (and none of whose cache
\* writes failed), reports success = total, failed = skipped = updated = 0,
\* and every listed resource is in the current generation.
C6_AllFetched ==
    \A j \in 1..Len(jobs) :
        (/\ jobs[j].phase = "done"
         /\ ~jobs[j].forceUpdate
         /\ Distinct(jobs[j].resources)
         /\ \A i \in 1..Len(jobs[j].resources) : Fetchable(jobs[j].resources[i])
         /\ \A i \in 1..Len(jobs[j].classes) :
               /\ ~jobs[j].classes[i].wasCached
               /\ jobs[j].classes[i].err # "put")
        => /\ Tallies(jobs[j]) = [success |-> Len(jobs[j].resources), failed |-> 0,
                                  skipped |-> 0, updated |-> 0]
           /\ \A i \in 1..Len(jobs[j].resources) :
                 cacheHas(caches, current, cacheUrlOf(jobs[j].resources[i]))

\* The keys written by the step taken: those that are new or hold another response.
WrittenKeys ==
    {gk \in UNION {{<<g, k>> : k \in DOMAIN caches'[g]} : g \in DOMAIN caches'} :
        \/ gk[1] \notin DOMAIN caches
        \/ gk[2] \notin DOMAIN caches[gk[1]]
        \/ caches'[gk[1]][gk[2]] # caches[gk[1]][gk[2]]}

\* C7: every entry written is written into the current generation under the
\* originally requested key of the prefetch task (or of the intercepted
\* request) that stores it, also when another spelling of the extension
\* answered; and a resource stored by a task is present under that key.
C7_KeyStability ==
    /\ [][\A gk \in WrittenKeys :
            /\ gk[1] = current
            /\ \/ \E j \in 1..Len(jobs) : \E k \in 1..Len(jobs[j].tasks) :
                     /\ jobs[j].tasks[k].pc = "put"
                     /\ gk[2] = Key(cacheUrlOf(jobs[j].tasks[k].url))
                     /\ caches'[current][gk[2]] = jobs[j].tasks[k].resp
               \/ \E r \in 1..Len(reqs) : gk[2] = reqs[r].url]_vars
    /\ [](\A j \in 1..Len(jobs) : \A k \in 1..Len(jobs[j].tasks) :
            jobs[j].tasks[k].pc = "fulfilled"
            => cacheHas(caches, current, cacheUrlOf(jobs[j].tasks[k].url)))

\* A task resolved its resource through another spelling and stored the
\* answer under the requested key; nothing is stored under the spelling that
\* answered.
C7_Witness ==
    \E j \in 1..Len(jobs) : \E k \in 1..Len(jobs[j].tasks) :
        LET t == jobs[j].tasks[k]
        IN /\ t.pc = "fulfilled"
           /\ t.resp.url # Key(cacheUrlOf(t.url))
           /\ caches[current][Key(cacheUrlOf(t.url))] = t.resp
           /\ t.resp.url \notin DOMAIN caches[current]

----------------------------------------------------------------------------
(* Properties of the request interceptor *)

HasQuery(url) == IndexOf(url, "?", 1) # 0

\* C8: a GET of a markup URL with a query string, intercepted in cache-first
\* mode while the path without the query is cached and the full URL is not,
\* is answered from the cache without a network request, and the document is
\* stored under the query-bearing key.
C8_QueryMarkupFromCache ==
    \A r \in 1..Len(reqs) :
        (/\ reqs[r].pc = "done"
         /\ reqs[r].branch = "cacheFirst"
         /\ isHtml(pathname(reqs[r].url))
         /\ HasQuery(reqs[r].url)
         /\ reqs[r].pathCached
         /\ ~reqs[r].keyCached)
        => /\ reqs[r].via = "cache"
           /\ NetRequestsOf(<<"req", r>>) = {}
           /\ cachesHas(caches, reqs[r].url)

\* C9: a GET of a mode-aware resource intercepted in network-first mode, whose
\* key is cached and whose URL answers 200, is answered with the network
\* response, the network having been asked before the cache.
C9_NetworkFirstOrder ==
    \A r \in 1..Len(reqs) :
        (/\ reqs[r].pc = "done"
         /\ reqs[r].branch = "networkFirst"
         /\ reqs[r].keyCached
         /\ NetStatus(net, reqs[r].url) = 200)
        => /\ reqs[r].via = "network"
           /\ reqs[r].trace[1] = "net"

\* The step taken is the cache lookup of request r.
IsLookupStep(r) ==
    /\ reqs[r].pc = "match"
    /\ reqs'[r] # reqs[r]

\* C10: in cache-first mode, the lookup of a mode-aware GET whose request key
\* is in the cache answers it with the cached response, issues no network
\* request and leaves the cache store unchanged.
C10_CacheFirstHit ==
    [][\A r \in 1..Len(reqs) :
          (/\ IsLookupStep(r)
           /\ reqs[r].branch = "cacheFirst"
           /\ cachesHas(caches, reqs[r].url))
          => /\ reqs'[r].pc = "done"
             /\ reqs'[r].via = "cache"
             /\ reqs'[r].resp = cachesMatch(caches, reqs[r].url)
             /\ netLog' = netLog
             /\ caches' = caches]_vars

\* A request intercepted in cache-first mode was answered from the cache, the
\* cache being the only thing consulted.
C10_Witness ==
    \E r \in 1..Len(reqs) :
        /\ reqs[r].pc = "done"
        /\ reqs[r].branch = "cacheFirst"
        /\ reqs[r].via = "cache"
        /\ reqs[r].trace = <<"cache">>
        /\ NetRequestsOf(<<"req", r>>) = {}


\* A request for markup: its path ends in .html or is /.
ForMarkup(url) ==
    \/ endsWith(pathname(url), <<".","h","t","m","l">>)
    \/ pathname(url) = <<"/">>

C12_NonGetPassthrough ==
    /\ [](\A r \in 1..Len(reqs) :
            reqs[r].method # "GET"
            => /\ reqs[r].pc = "done"
               /\ reqs[r].resp = NoResp
               /\ reqs[r].via = "none"
               /\ reqs[r].bg = "none"
               /\ NetRequestsOf(<<"req", r>>) = {})
    /\ [][(Len(reqs') > Len(reqs) /\ reqs'[Len(reqs')].method # "GET")
          => /\ caches' = caches
             /\ cacheFirstMode' = cacheFirstMode
             /\ netLog' = netLog]_vars

\* A POST for a mode-aware path was dispatched while the flag was cache-first.
C12_Witness ==
    \E r \in 1..Len(reqs) :
        /\ reqs[r].method = "POST"
        /\ reqs[r].mode
        /\ modeAware(pathname(reqs[r].url))
        /\ reqs[r].pc = "done"


\* What a request of the "other" classification is answered, given the
\* network and whether its key was in the cache; the mode flag is no input.
OtherOutcome(q) ==
    LET status == NetStatus(net, q.url)
    IN IF status # 0 THEN [via |-> "network", resp |-> Resp(status, q.url),
                           trace |-> <<"net">>]
       ELSE IF q.keyCached THEN [via |-> "cache", resp |-> StoredResp(Key(q.url)),
                                 trace |-> <<"net", "cache">>]
       ELSE [via |-> "synth", resp |-> synth503(FALSE), trace |-> <<"net", "cache">>]

\* C13: a GET that is neither media, JSON nor markup takes the "other" branch
\* whatever the mode flag is; the network is asked first and the cache is
\* consulted only after a transport error; the response, and whether the
\* response is written to the cache, are determined by the request, the
\* network and the cache alone.
C13_OtherIgnoresMode ==
    \A r \in 1..Len(reqs) :
        LET q == reqs[r]
        IN (q.method = "GET" /\ ~modeAware(pathname(q.url)))
           => /\ q.branch = "other"
              /\ q.trace # <<>> /\ q.trace[1] = "net"
              /\ (Len(q.trace) > 1) => (NetStatus(net, q.url) = 0 /\ q.pc = "done")
              /\ q.pc = "done"
                 => /\ q.via = OtherOutcome(q).via
                    /\ q.resp = OtherOutcome(q).resp
                    /\ q.trace = OtherOutcome(q).trace
                    /\ (q.bg # "none") <=> (NetStatus(net, q.url) = 200
                                            /\ startsWith(q.url, Origin))
                    /\ q.bg = "done" => /\ cacheHas(caches, current, q.url)
                                        /\ caches[current][Key(q.url)] = q.resp

\* A request of the "other" classification was dispatched while the flag was
\* cache-first; the network failed and the cached entry was served.
C13_Witness ==
    \E r \in 1..Len(reqs) :
        /\ reqs[r].method = "GET"
        /\ ~modeAware(pathname(reqs[r].url))
        /\ reqs[r].mode
        /\ reqs[r].pc = "done"
        /\ reqs[r].via = "cache"
        /\ reqs[r].trace = <<"net", "cache">>

\* C14: the "other" branch writes a cache entry only for a request whose
\* origin is the worker's origin and whose network response has status 200.
C14_SameOriginWrites ==
    \A r \in 1..Len(reqs) :
        (reqs[r].branch = "other" /\ reqs[r].bg = "done")
        => /\ originOf(reqs[r].url) = Origin
           /\ reqs[r].netResp.status = 200

\* C17: an intercepted GET whose network response has status 200 is answered
\* with that response, also when the cache write that follows fails.
C17_WriteFailureServesNetwork ==
    \A r \in 1..Len(reqs) :
        (reqs[r].pc = "done" /\ reqs[r].netResp.status = 200)
        => /\ reqs[r].via = "network"
           /\ reqs[r].resp = reqs[r].netResp


----------------------------------------------------------------------------
(* Properties of the lifecycle and of the mode flag *)

\* A step of the activate handler.
IsActivateStep ==
    \/ sw'.activate # sw.activate
    \/ sw'.toDelete # sw.toDelete
    \/ sw'.activations # sw.activations

\* C15: no step of an activation, the first or a repeated one, removes the
\* current generation or changes its entries, every generation an activation
\* deletes has a name other than the current version string, and once an
\* activation has completed no generation but the current one is left.
C15_ActivationPrunes ==
    /\ [](sw.activate = "done" => DOMAIN caches \subseteq {"baby-cards-v6"})
    /\ [][IsActivateStep
          => /\ \A g \in DOMAIN caches \ DOMAIN caches' : g # "baby-cards-v6"
             /\ "baby-cards-v6" \in DOMAIN caches
                => /\ "baby-cards-v6" \in DOMAIN caches'
                   /\ caches'["baby-cards-v6"] = caches["baby-cards-v6"]]_vars

\* A second activation has completed after stale generations were deleted,
\* and the current generation holds its entries.
C15_Witness ==
    /\ sw.activations = 2
    /\ sw.activate = "done"
    /\ sw.deleted = {OlderName, StaleName}
    /\ DOMAIN caches = {CACHE_NAME}
    /\ Key(withSlash(ResA)) \in DOMAIN caches[CACHE_NAME]

\* C16: the mode flag is false until an updateCacheStrategy message arrives
\* and afterwards equals the cacheFirst value of the latest such message,
\* whatever install, activate, fetch events, cacheResources messages and
\* prefetch jobs have done in between.
C16_ModeFlag ==
    cacheFirstMode = (sw.strategy.seen /\ sw.strategy.cacheFirst)

\* The flag is cache-first after the worker was installed and activated, a
\* fetch event was answered and a prefetch job completed.
C16_Witness ==
    /\ cacheFirstMode
    /\ sw.install = "ok"
    /\ sw.activate = "done"
    /\ \E r \in 1..Len(reqs) : reqs[r].pc = "done" /\ reqs[r].method = "GET"
    /\ \E j \in 1..Len(jobs) : jobs[j].phase = "done"

\* The five paths of the core-file set, as request keys.
CoreEntries ==
    {Origin \o <<"/">>,
     Origin \o <<"/","i","n","d","e","x",".","h","t","m","l">>,
     Origin \o <<"/","l","i","s","t",".","h","t","m","l">>,
     Origin \o <<"/","v","i","e","w",".","h","t","m","l">>,
     Origin \o <<"/","d","a","t","a","/","p","a","c","k","s",".","j","s","o","n">>}

\* C20: whenever the installation has succeeded, every path of the core-file
\* set has an entry in the current generation; and skip-waiting has been
\* signalled from the moment the install handler has run, while the seeding
\* is still pending.
C20_InstallSeeds ==
    /\ sw.install = "ok"
       => /\ CACHE_NAME \in DOMAIN caches
          /\ CoreEntries \subseteq DOMAIN caches[CACHE_NAME]
    /\ sw.install \in {"opening", "adding", "ok", "failed"} => sw.skipWaiting

\* The installation succeeded on a cache store that had no current
\* generation before, and the worker was activated.
C20_Witness ==
    /\ sw.install = "ok"
    /\ sw.skipWaiting
    /\ sw.activate = "done"
    /\ DOMAIN caches = {CACHE_NAME}
    /\ DOMAIN caches[CACHE_NAME] = CoreEntries


----------------------------------------------------------------------------
(* Properties of getCaseVariants and of the interceptor under failures *)

\* The part of a path up to and including its last '.', and the part after it.
UpToLastDot(p) == SubSeq(p, 1, LastIndexOf(p, "."))
AfterLastDot(p) == SubSeq(p, LastIndexOf(p, ".") + 1, Len(p))

\* The three case forms of a path: the characters after the last '.' in
\* lower case, in upper case, and with only the first of them in upper case.
LowerForm(p) == UpToLastDot(p) \o toLowerCase(AfterLastDot(p))
UpperForm(p) == UpToLastDot(p) \o toUpperCase(AfterLastDot(p))
CapitalizedForm(p) ==
    LET e == AfterLastDot(p)
    IN UpToLastDot(p) \o [i \in 1..Len(e) |->
                             IF i = 1 THEN ToUpperChar(e[i]) ELSE ToLowerChar(e[i])]

\* C19: getCaseVariants(P) is the sequence P, lower-case form, upper-case
\* form, capitalized form with repetitions removed: P comes first and once,
\* nothing is repeated, every element equals P up to the letter case of the
\* characters after the last '.', and a path without '.' yields P alone.
C19_CaseVariants ==
    probe.applied
    => LET P == probe.path
           V == probe.variants
       IN /\ V = IF LastIndexOf(P, ".") = 0 THEN <<P>>
                 ELSE Dedup(<<P, LowerForm(P), UpperForm(P), CapitalizedForm(P)>>)
          /\ V[1] = P
          /\ Cardinality({i \in 1..Len(V) : V[i] = P}) = 1
          /\ \A i, j \in 1..Len(V) : i # j => V[i] # V[j]
          /\ \A i \in 1..Len(V) :
                /\ Len(V[i]) = Len(P)
                /\ \A c \in 1..Len(P) :
                      \/ V[i][c] = P[c]
                      \/ /\ c > LastIndexOf(P, ".")
                         /\ LastIndexOf(P, ".") > 0
                         /\ ToLowerChar(V[i][c]) = ToLowerChar(P[c])
          /\ (\A c \in 1..Len(P) : P[c] # ".") => V = <<P>>

\* getCaseVariants was applied to a path with a mixed-case extension and
\* returned the path and its three case forms.
C19_Witness ==
    /\ probe.applied
    /\ Len(probe.variants) = 4
    /\ probe.variants[1] = probe.path

\* C18: the promise handed to respondWith for an intercepted GET never
\* rejects, and once every platform promise has settled it is resolved with a
\* network response, a cached response or the synthesized 503.
C18_AlwaysServes ==
    /\ [](\A r \in 1..Len(reqs) : reqs[r].via # "rejected")
    /\ \A r \in 1..MaxReqs :
          (r <= Len(reqs) /\ reqs[r].method = "GET")
          ~> (r <= Len(reqs) /\ reqs[r].pc = "done"
              /\ reqs[r].via \in {"network", "cache", "synth"})


----------------------------------------------------------------------------
(* Properties of message routing *)

\* The step delivers the oldest pending message, and the pages it reaches.
IsDeliverStep == outbox # <<>> /\ outbox' = Tail(outbox)
Recipients == {c \in ClientIds : inbox'[c] # inbox[c]}

\* C21 as stated: an event of a job goes to the page the cacheResources
\* message came from when that page is identified and open, and to every open
\* page otherwise.
C21_ToRequesterElseBroadcast ==
    [][IsDeliverStep
       => LET src == jobs[Head(outbox).msg.job].source
          IN Recipients = IF src # NoClient /\ src \in clients THEN {src} ELSE clients]_vars

\* C21 amended: an event of a job goes to the job's addressee when that page
\* is open, and to every open page otherwise; the addressee is the page the
\* cacheResources message came from or, when the message carries no source
\* id, a page that was open when the message was handled (none if there was
\* none).
C21_ToAddresseeElseBroadcast ==
    /\ [][IsDeliverStep
          => LET job == jobs[Head(outbox).msg.job]
             IN /\ Recipients = IF job.clientId \in clients THEN {job.clientId}
                                ELSE clients
                /\ \A c \in Recipients :
                      inbox'[c] = Append(inbox[c], Head(outbox).msg)]_vars
    /\ [][\A j \in 1..Len(jobs) :
            /\ jobs[j].source # NoClient => jobs'[j].clientId = jobs[j].source
            /\ (jobs[j].phase = "lookup" /\ jobs'[j].phase # "lookup")
               => IF clients = {} THEN jobs'[j].clientId = NoClient
                  ELSE jobs'[j].clientId \in clients
            /\ jobs[j].phase # "lookup" => jobs'[j].clientId = jobs[j].clientId]_vars

\* A job whose message carried no source id has reported to one of two open
\* pages only.
C21_Witness ==
    \E j \in 1..Len(jobs) :
        /\ jobs[j].source = NoClient
        /\ clients = {1, 2}
        /\ JobDrained(j)
        /\ Len(jobs[j].resources) > 0
        /\ \E c \in clients :
              /\ Len(MsgsOf(c, j)) = Len(jobs[j].resources) + 1
              /\ \A d \in clients \ {c} : MsgsOf(d, j) = <<>>

----------------------------------------------------------------------------
(* Case-variant resolution in the interceptor *)

\* The case variants of a request's path other than the path itself, as URLs
\* of the request's origin.
OtherVariantUrls(url) ==
    LET vs == getCaseVariants(pathname(url))
    IN {originOf(url) \o vs[k] : k \in {n \in 1..Len(vs) : vs[n] # pathname(url)}}

\* C22: an intercepted same-origin GET of a mode-aware resource with a file
\* extension, whose exact-case path is neither cached nor answers 200 while a
\* case variant of its extension is cached or answers 200, is answered with
\* that variant's response and not with the synthesized 503.
C22_ResolvesThroughVariant ==
    \A r \in 1..Len(reqs) :
        LET q == reqs[r]
        IN (/\ q.pc = "done"
            /\ q.branch \in {"cacheFirst", "networkFirst"}
            /\ sameOrigin(q.url)
            /\ ExtDot(pathname(q.url)) # 0
            /\ ~q.keyCached
            /\ NetStatus(net, q.url) # 200
            /\ \E v \in OtherVariantUrls(q.url) :
                  cachesHas(caches, v) \/ NetStatus(net, v) = 200)
           => /\ q.resp.status # 503
              /\ \E v \in OtherVariantUrls(q.url) :
                    \/ cachesHas(caches, v) /\ q.resp = cachesMatch(caches, v)
                    \/ q.resp.status = NetStatus(net, v)

----------------------------------------------------------------------------
(* Order of pruning and claiming *)

\* C23: in no reachable state has clients.claim been invoked while a
\* generation whose name differs from the current version string exists.
C23_ClaimAfterPrune ==
    sw.claim \in {"pending", "done"} => DOMAIN caches \subseteq {CACHE_NAME}

----------------------------------------------------------------------------
(* The mode flag and requests in flight *)

\* C24: a request is dispatched by the value the mode flag has when it is
\* intercepted, which is the value of the latest updateCacheStrategy message
\* (false before the first), and the branch chosen stays the request's
\* branch through all its later steps, whatever messages arrive meanwhile.
C24_ModeReadAtInterception ==
    /\ [][\A r \in 1..Len(reqs) :
            /\ r <= Len(reqs')
            /\ reqs'[r].branch = reqs[r].branch
            /\ reqs'[r].mode = reqs[r].mode]_vars
    /\ [][Len(reqs') > Len(reqs)
          => LET q == reqs'[Len(reqs')]
                 flag == IF sw.strategy.seen THEN sw.strategy.cacheFirst ELSE FALSE
             IN /\ q.mode = flag
                /\ q.branch = branchOf(q.method, q.url, flag)]_vars
    /\ [](\A r \in 1..Len(reqs) :
            LET q == reqs[r]
            IN /\ q.branch = branchOf(q.method, q.url, q.mode)
               /\ q.method = "GET" /\ modeAware(pathname(q.url))
                  => q.branch = IF q.mode THEN "cacheFirst" ELSE "networkFirst")

\* A request intercepted in network-first mode has its network response and
\* is about to store it, a message having switched the worker to cache-first
\* mode while the request was in flight.
C24_Witness ==
    \E r \in 1..Len(reqs) :
        /\ reqs[r].pc = "put"
        /\ reqs[r].branch = "networkFirst"
        /\ reqs[r].netResp.status = 200
        /\ cacheFirstMode
        /\ sw.strategy.seen /\ sw.strategy.cacheFirst

----------------------------------------------------------------------------
(* Bounded concurrency of a prefetch job *)

\* The tasks of a job that have started and not settled.
InFlight(j) == {k \in 1..Len(jobs[j].tasks) : ~Settled(jobs[j].tasks[k])}

\* C25: a job has at most 10 tasks at a time, they are the tasks of
\* consecutive list positions starting at a multiple of 10, every resource
\* before them has been classified, and every cache check and network request
\* of the job is made for a resource of the current batch.
C25_BoundedBatches ==
    /\ [](\A j \in 1..Len(jobs) :
            LET job == jobs[j]
            IN /\ Cardinality(InFlight(j)) <= 10
               /\ Len(job.tasks) <= 10
               /\ job.phase = "batch"
                  => /\ (job.i - 1) % 10 = 0
                     /\ Len(job.classes) = job.i - 1
                     /\ Len(job.tasks) = IF Len(job.resources) - job.i + 1 < 10
                                         THEN Len(job.resources) - job.i + 1 ELSE 10
                     /\ \A k \in 1..Len(job.tasks) :
                           job.tasks[k].url = job.resources[job.i + k - 1]
               /\ \A e \in netLog :
                     (e.by[1] = "job" /\ e.by[2] = j)
                     => e.by[3] <= Len(job.classes) + Len(job.tasks))
    /\ [][\A j \in 1..Len(jobs) :
            /\ \A e \in netLog' \ netLog :
                  (e.by[1] = "job" /\ e.by[2] = j)
                  => /\ jobs[j].phase = "batch"
                     /\ e.by[3] \in jobs[j].i..(jobs[j].i + Len(jobs[j].tasks) - 1)
                     /\ Len(jobs[j].classes) = jobs[j].i - 1
            /\ \A k \in 1..Len(jobs[j].tasks) :
                  (/\ jobs'[j].i = jobs[j].i
                   /\ jobs[j].tasks[k].pc = "check"
                   /\ jobs'[j].tasks[k].pc # "check")
                  => Len(jobs[j].classes) = jobs[j].i - 1
            /\ jobs'[j].i > jobs[j].i => InFlight(j) = {}]_vars

\* A job of eleven resources has classified its first ten, some of them
\* after network requests, and the request of the eleventh is pending.
C25_Witness ==
    \E j \in 1..Len(jobs) :
        /\ Len(jobs[j].resources) = 11
        /\ jobs[j].phase = "batch"
        /\ jobs[j].i = 11
        /\ Len(jobs[j].classes) = 10
        /\ jobs[j].tasks[1].pc = "fetching"
        /\ \E e \in netLog : e.by = <<"job", j, 1>>

----------------------------------------------------------------------------
(* A network request that never settles *)

\* Request r is for a URL whose server answers; job j has no resource whose
\* server never answers.
Answerable(r) == r <= Len(reqs) /\ ~Hangs(net, reqs[r].url)
Completable(j) ==
    /\ j <= Len(jobs)
    /\ \A i \in 1..Len(jobs[j].resources) : ~Hangs(net, Key(jobs[j].resources[i]))

\* The fetch of request r, or of a task of job j, is pending and never settles.
ReqHangs(r) ==
    r <= Len(reqs) /\ reqs[r].pc = "fetching" /\ Hangs(net, reqs[r].req)
JobHangs(j) ==
    /\ j <= Len(jobs)
    /\ \E k \in 1..Len(jobs[j].tasks) :
          jobs[j].tasks[k].pc = "fetching" /\ Hangs(net, jobs[j].tasks[k].req)

\* The page that asked for job j has received the job's completion message.
Completed(j) ==
    \E n \in 1..Len(inbox[jobs[j].source]) :
        /\ inbox[jobs[j].source][n].type = "cacheComplete"
        /\ inbox[jobs[j].source][n].job = j

\* C26: whatever network requests hang, every intercepted GET for a URL whose
\* server answers is answered, every prefetch job without a hanging resource
\* gets its completion message delivered, and the mode flag is the value of
\* the latest mode message; the request or job of a hanging fetch stays
\* pending.
C26_HangBlocksOnlyItself ==
    /\ \A r \in 1..MaxHang :
          Answerable(r)
          ~> (/\ r <= Len(reqs)
              /\ reqs[r].pc = "done"
              /\ reqs[r].via \in {"network", "cache", "synth"})
    /\ \A j \in 1..MaxHang :
          Completable(j) ~> (j <= Len(jobs) /\ Completed(j))
    /\ [](sw.strategy.seen => cacheFirstMode = sw.strategy.cacheFirst)
    /\ [][/\ \A r \in 1..Len(reqs) : ReqHangs(r) => ReqHangs(r)'
          /\ \A j \in 1..Len(jobs) : JobHangs(j) => JobHangs(j)']_vars

\* While the fetch of a request hangs, a request intercepted after it has
\* been answered from the network and a mode message has been applied.
C26_Witness ==
    /\ Len(reqs) = 2
    /\ ReqHangs(1)
    /\ reqs[2].pc = "done" /\ reqs[2].via = "network" /\ reqs[2].resp.status = 200
    /\ cacheFirstMode

----------------------------------------------------------------------------
(* Progress events *)

\* The sendToClient calls made by the step, in call order.
NewSends == SubSeq(outbox', Len(outbox) + 1, Len(outbox'))

\* The current fields of the progress messages of job j in a sequence of
\* messages.
RECURSIVE CurrentsOf(_, _)
CurrentsOf(msgs, j) ==
    IF msgs = <<>> THEN <<>>
    ELSE IF Head(msgs).type = "cacheProgress" /\ Head(msgs).job = j
    THEN <<Head(msgs).current>> \o CurrentsOf(Tail(msgs), j)
    ELSE CurrentsOf(Tail(msgs), j)

\* C27: progress messages are sent only in the step that classifies a batch,
\* all of whose tasks have settled; that step sends one message per resource
\* of the batch in list order, the k-th of them with current = number of
\* resources classified before the batch + k, the job's total and the
\* normalized key of the resource; the last message of a batch carries the
\* sum of the job's three counters; and the progress messages a page has
\* received for a job have increasing current values between 1 and total.
C27_ProgressCounts ==
    /\ [][\A j \in 1..Len(jobs) :
            Len(jobs'[j].classes) > Len(jobs[j].classes)
            => LET job == jobs[j]
                   base == Len(job.classes)
                   n == Len(job.tasks)
               IN /\ \A k \in 1..n : Settled(job.tasks[k])
                  /\ Len(jobs'[j].classes) = base + n
                  /\ Len(NewSends) \in {n, n + 1}
                  /\ \A k \in 1..n :
                        LET m == NewSends[k].msg
                        IN /\ m.type = "cacheProgress"
                           /\ m.job = j
                           /\ m.current = base + k
                           /\ m.current <= m.total
                           /\ m.total = Len(job.resources)
                           /\ m.url = cacheUrlOf(job.resources[base + k])
                  /\ NewSends[n].msg.current
                       = jobs'[j].success + jobs'[j].failed + jobs'[j].skipped
                  /\ Len(NewSends) = n + 1
                     => NewSends[n + 1].msg.type = "cacheComplete"]_vars
    /\ [][Len(outbox') > Len(outbox)
          => \A k \in 1..Len(NewSends) :
                NewSends[k].msg.type = "cacheProgress"
                => Len(jobs'[NewSends[k].msg.job].classes)
                     > Len(jobs[NewSends[k].msg.job].classes)]_vars
    /\ [](\A j \in 1..Len(jobs), c \in ClientIds :
            LET cur == CurrentsOf(inbox[c], j)
            IN \A a \in 1..Len(cur) :
                  /\ cur[a] \in 1..Len(jobs[j].resources)
                  /\ a > 1 => cur[a] > cur[a - 1])

\* The page that asked for a job of eleven resources, one failed, nine
\* skipped and one stored, has received current = 1, 2, ..., 11.
C27_Witness ==
    \E j \in 1..Len(jobs) :
        /\ jobs[j].phase = "done"
        /\ jobs[j].failed = 1 /\ jobs[j].skipped = 9 /\ jobs[j].success = 1
        /\ \E c \in ClientIds :
              CurrentsOf(inbox[c], j) = [a \in 1..11 |-> a]

----------------------------------------------------------------------------
(* Sequential probing by the prefetch coordinator *)

\* The candidate URLs of a relative resource, in generator order.
VariantUrls(url) ==
    LET vs == getCaseVariants(StripQuery(withSlash(url)))
    IN [i \in 1..Len(vs) |-> Origin \o vs[i]]

\* The URLs requested so far for resource n of job j.
RequestedFor(j, n) == {e.url : e \in {x \in netLog : x.by = <<"job", j, n>>}}

\* C28: the requests made for a relative resource are those of an initial
\* part of its candidate list, all of which but the last have failed; a
\* candidate is requested in the step in which the request of the candidate
\* before it fails (or, for the first, when the task starts), the answer that
\* is taken is that of the first candidate answering 2xx, and the task fails
\* for want of an answer only when every candidate has been requested; a
\* resource given as http(s) URL is requested once at most, as it is.
C28_SequentialProbing ==
    /\ [](\A j \in 1..Len(jobs) : \A n \in 1..Len(jobs[j].resources) :
            LET url == jobs[j].resources[n]
                cands == VariantUrls(url)
                asked == RequestedFor(j, n)
            IN IF isOnlineUrl(url)
               THEN asked \subseteq {url}
               ELSE \E m \in 0..Len(cands) :
                       /\ asked = {cands[i] : i \in 1..m}
                       /\ \A i \in 1..(m - 1) : ~ok(NetStatus(net, cands[i])))
    /\ [](\A j \in 1..Len(jobs) : \A k \in 1..Len(jobs[j].tasks) :
            LET t == jobs[j].tasks[k]
                cands == VariantUrls(t.url)
                asked == RequestedFor(j, jobs[j].i + k - 1)
            IN /\ (t.pc = "fetching" /\ ~isOnlineUrl(t.url))
                  => /\ t.req = cands[t.vi]
                     /\ asked = {cands[i] : i \in 1..t.vi}
               /\ (t.pc \in {"put", "fulfilled"} /\ ~isOnlineUrl(t.url))
                  => \E m \in 1..Len(cands) :
                        /\ t.resp.url = cands[m]
                        /\ ok(NetStatus(net, cands[m]))
                        /\ \A i \in 1..(m - 1) : ~ok(NetStatus(net, cands[i]))
                        /\ asked = {cands[i] : i \in 1..m}
               /\ (t.pc = "rejected" /\ t.err = "fetch" /\ ~isOnlineUrl(t.url))
                  => /\ asked = {cands[i] : i \in 1..Len(cands)}
                     /\ \A i \in 1..Len(cands) : ~ok(NetStatus(net, cands[i]))
               /\ (t.pc \in {"put", "fulfilled"} /\ isOnlineUrl(t.url))
                  => t.resp.url = t.url /\ asked = {t.url})
    /\ [][\A j \in 1..Len(jobs) : \A k \in 1..Len(jobs[j].tasks) :
            LET t == jobs[j].tasks[k]
                n == jobs[j].i + k - 1
            IN (/\ jobs'[j].i = jobs[j].i
                /\ RequestedFor(j, n)' # RequestedFor(j, n))
               => /\ Cardinality(RequestedFor(j, n)') = Cardinality(RequestedFor(j, n)) + 1
                  /\ jobs'[j].tasks[k].pc = "fetching"
                  /\ \/ t.pc \in {"check", "origin"} /\ RequestedFor(j, n) = {}
                     \/ /\ t.pc = "fetching"
                        /\ ~ok(NetStatus(net, t.req))
                        /\ ~isOnlineUrl(t.url)]_vars

\* A job has asked for /b.PNG, then for /b.png, which answered, and not for
\* /b.Png; for the foreign resource it has made one request.
C28_Witness ==
    \E j \in 1..Len(jobs) :
        /\ jobs[j].resources = <<ResB, ResR>>
        /\ jobs[j].phase = "done"
        /\ jobs[j].success = 2
        /\ RequestedFor(j, 1) = {Origin \o ResB, Origin \o FileB}
        /\ Len(VariantUrls(ResB)) > 2
        /\ RequestedFor(j, 2) = {ResR}

----------------------------------------------------------------------------
(* Failed prefetches and the cache *)

\* The keys of the current generation whose entry the step creates or changes.
ChangedKeys ==
    IF current \notin DOMAIN caches' THEN {}
    ELSE {k \in DOMAIN caches'[current] :
            \/ current \notin DOMAIN caches
            \/ k \notin DOMAIN caches[current]
            \/ caches'[current][k] # caches[current][k]}

\* No other resource of any job has the key of resource i of job j.
SoleWriter(j, i) ==
    \A j2 \in 1..Len(jobs) : \A i2 \in 1..Len(jobs[j2].resources) :
        (j2 # j \/ i2 # i)
        => Key(cacheUrlOf(jobs[j2].resources[i2])) # Key(cacheUrlOf(jobs[j].resources[i]))

\* C29: the step in which a prefetch task fails leaves the cache store as it
\* is, and a coordinator step changes an entry only when it is the successful
\* write of the task of that key, and it removes none; so a resource
\* classified as failed is not counted as updated, and if it was in the cache
\* and no other resource has its key, the entry under its key is the one that
\* was there before the job.
C29_FailedLeavesCache ==
    /\ [][\A j \in 1..Len(jobs) : \A k \in 1..Len(jobs[j].tasks) :
            (/\ jobs'[j].i = jobs[j].i
             /\ jobs[j].tasks[k].pc # "rejected"
             /\ jobs'[j].tasks[k].pc = "rejected")
            => caches' = caches]_vars
    /\ [][/\ \A g \in DOMAIN caches :
               g \in DOMAIN caches' /\ DOMAIN caches[g] \subseteq DOMAIN caches'[g]
          /\ \A key \in ChangedKeys :
               \E j \in 1..Len(jobs) : \E k \in 1..Len(jobs[j].tasks) :
                  /\ jobs[j].tasks[k].pc = "put"
                  /\ jobs'[j].tasks[k].pc = "fulfilled"
                  /\ key = Key(cacheUrlOf(jobs[j].tasks[k].url))]_vars
    /\ [](\A j \in 1..Len(jobs) :
            /\ \A i \in 1..Len(jobs[j].classes) :
                  jobs[j].classes[i].class = "failed"
                  => /\ ~jobs[j].classes[i].updated
                     /\ (SoleWriter(j, i) /\ cacheHas(caches, current, jobs[j].classes[i].url))
                        => caches[current][Key(jobs[j].classes[i].url)]
                             = StoredResp(Key(jobs[j].classes[i].url))
            /\ jobs[j].updated <= jobs[j].success)

\* A forced job has finished whose resource /b.PNG, cached before, could not
\* be fetched again: it is counted as failed, nothing as updated, and the old
\* entry is in the cache.
C29_Witness ==
    \E j \in 1..Len(jobs) : \E i \in 1..Len(jobs[j].classes) :
        /\ jobs[j].forceUpdate
        /\ jobs[j].phase = "done"
        /\ jobs[j].resources[i] = ResB
        /\ jobs[j].classes[i].class = "failed"
        /\ jobs[j].classes[i].err = "fetch"
        /\ jobs[j].classes[i].wasCached
        /\ jobs[j].updated = 0
        /\ jobs[j].failed >= 1
        /\ cacheHas(caches, current, ResB)
        /\ caches[current][Key(ResB)] = StoredResp(Key(ResB))

----------------------------------------------------------------------------
(* What is stored *)

\* The step is a cache write of the interceptor for request r.
IsReqWrite(r) ==
    /\ \/ reqs[r].pc = "put" /\ reqs'[r].pc # "put"
       \/ reqs[r].bg = "pending" /\ reqs'[r].bg # "pending"
    /\ caches' # caches

\* C30: every entry of the current generation is a response received from
\* the network with a status from 200 to 299, never the synthesized 503; an
\* entry written by the interceptor has status 200; and every step that
\* creates or changes an entry writes the answer of the URL it names.
C30_OnlySuccessStored ==
    /\ [](current \in DOMAIN caches
          => \A k \in DOMAIN caches[current] :
                LET e == caches[current][k]
                IN /\ e.status >= 200 /\ e.status <= 299
                   /\ e.contentType = "served"
                   /\ e.status = NetStatus(net, e.url))
    /\ [][\A r \in 1..Len(reqs) :
            IsReqWrite(r)
            => /\ ChangedKeys \subseteq {Key(reqs[r].url)}
               /\ \A k \in ChangedKeys :
                     /\ caches'[current][k].status = 200
                     /\ caches'[current][k] = reqs[r].netResp]_vars

\* The current generation holds the core files stored by install, /b.PNG
\* stored by a prefetch job from the answer of /b.png after /b.PNG had
\* answered 404, and an entry stored by the interceptor.
C30_Witness ==
    /\ current \in DOMAIN caches
    /\ coreKeys \subseteq DOMAIN caches[current]
    /\ Key(ResB) \in DOMAIN caches[current]
    /\ caches[current][Key(ResB)].url = Origin \o FileB
    /\ \E e \in netLog : e.by[1] = "job" /\ e.url = Origin \o ResB
    /\ NetStatus(net, Origin \o ResB) = 404
    /\ \E r \in 1..Len(reqs) :
          /\ reqs[r].pc = "done"
          /\ reqs[r].via = "network"
          /\ Key(reqs[r].url) \in DOMAIN caches[current]
          /\ caches[current][Key(reqs[r].url)] = reqs[r].netResp

----------------------------------------------------------------------------
(* A resource listed more than once *)

\* Occurrence n of job j has been fetched and stored.
Stored(j, n) ==
    \/ n <= Len(jobs[j].classes) /\ jobs[j].classes[n].class = "success"
    \/ /\ jobs[j].phase = "batch"
       /\ n - jobs[j].i + 1 \in 1..Len(jobs[j].tasks)
       /\ jobs[j].tasks[n - jobs[j].i + 1].pc = "fulfilled"

\* The other occurrences of the resource at position n of job j.
Twins(j, n) ==
    {m \in 1..Len(jobs[j].resources) :
        m # n /\ jobs[j].resources[m] = jobs[j].resources[n]}

\* C31 as stated: in a job without forceUpdate, of the occurrences of one
\* resource at most one is fetched and stored, also when the occurrences
\* are tasks of the same batch.
C31_DuplicateStoredOnce ==
    \A j \in 1..Len(jobs) : \A n \in 1..Len(jobs[j].resources) :
        (~jobs[j].forceUpdate /\ Stored(j, n))
        => \A m \in Twins(j, n) : ~Stored(j, m) /\ RequestedFor(j, m) = {}

\* C31 amended: in a job without forceUpdate, an occurrence of a resource
\* whose membership check runs after another occurrence has been fetched and
\* stored is skipped by that check, without a network request; an occurrence
\* that was fetched and stored had found the resource absent at its own
\* check, and two occurrences that were both stored belong to the same batch.
C31_SkippedAfterStore ==
    /\ [][\A j \in 1..Len(jobs) : \A k \in 1..Len(jobs[j].tasks) :
            (/\ IsCheckStep(j, k)
             /\ ~jobs[j].forceUpdate
             /\ \E m \in Twins(j, jobs[j].i + k - 1) : Stored(j, m))
            => /\ jobs'[j].tasks[k].pc = "skipped"
               /\ netLog' = netLog
               /\ caches' = caches]_vars
    /\ [](\A j \in 1..Len(jobs) : \A n \in 1..Len(jobs[j].classes) :
            LET c == jobs[j].classes[n]
            IN /\ (~jobs[j].forceUpdate /\ c.class = "success") => ~c.wasCached
               /\ c.class = "skipped" => RequestedFor(j, n) = {}
               /\ (~jobs[j].forceUpdate /\ c.class = "success")
                  => \A m \in Twins(j, n) :
                        Stored(j, m) => (m - 1) \div batchSize = (n - 1) \div batchSize)

\* A job without forceUpdate listing a.json twice has finished: one occurrence
\* was fetched and stored, the other, checked afterwards, was skipped without
\* a request.
C31_Witness ==
    \E j \in 1..Len(jobs) :
        /\ ~jobs[j].forceUpdate
        /\ jobs[j].phase = "done"
        /\ jobs[j].resources = <<ResA, ResA>>
        /\ \E n \in 1..2 :
              /\ jobs[j].classes[n].class = "success"
              /\ ~jobs[j].classes[n].wasCached
              /\ jobs[j].classes[3 - n].class = "skipped"
              /\ RequestedFor(j, 3 - n) = {}
              /\ RequestedFor(j, n) # {}

====
